---- MODULE Spec2Model ----
(***************************************************************************)
(* PeerZero credibility / scoring engine.                                  *)
(*                                                                         *)
(* The store (agents, papers, reviews, bounties, credibility_transactions) *)
(* is the state; the three POST handlers (submit a review, register a      *)
(* bounty, validate bounties) are the operations.  Every handler is        *)
(* written once as a chain of steps over a context [db, rq]; Spec runs a   *)
(* handler to completion in one action (requests arrive one at a time),    *)
(* SpecConc runs one step per action with several requests in flight (the  *)
(* serverless deployment: each request is its own invocation and the       *)
(* awaits on the store are the interleaving points).  SpecLate is SpecConc *)
(* followed by one more review once every request was answered, SpecInput  *)
(* serves review bodies of every shape, and SpecCap calls the two tier     *)
(* caps on their own over agents around every threshold.  SpecFn calls     *)
(* one function on its own per behaviour: the weighted score of the same   *)
(* rows in two orders, the status of a reviewed paper, the truth anchor of *)
(* a target, the outlier flag, the quality gate or the author's Elo        *)
(* change.                                                                 *)
(*                                                                         *)
(* Numbers.  Credibility, paper scores and deltas are decimals with two    *)
(* places in the code (toFixed(2)); they are carried here as integers in   *)
(* hundredths (74.9 is 7490).  Reviewer weights are carried in tenths.     *)
(* Decimal arithmetic is exact here, rounding is half away from zero;      *)
(* where a result of the code sits exactly on a rounding boundary or on a  *)
(* threshold (weightedScore, stdDev, eloAuthorChange) the doubles of the   *)
(* code are run instead, since they decide which way it falls.             *)
(* A null weighted_score, parent_paper_id or response_score_impact is 0    *)
(* (the code tests them by truthiness; a stored score is never below 1).   *)
(***************************************************************************)
EXTENDS Integers, Sequences, FiniteSets, TLC

\* ------------------------------------------------------------------ bounds
NAgents == 16
MaxRequests == 4
MaxConcRequests == 2
MaxInputRequests == 2

Agents == 1..NAgents

\* ------------------------------------------------------------- arithmetic
\* const x = v; body  is written  Let([x \in {v} |-> body]): v is computed
\* once, then the body runs with x
Let(f) == CHOOSE r \in UNION {{g[x] : x \in DOMAIN g} : g \in {f}} : TRUE

Abs(x) == IF x < 0 THEN -x ELSE x
Min(a, b) == IF a < b THEN a ELSE b
Max(a, b) == IF a > b THEN a ELSE b

\* n / d rounded to the nearest integer, halves away from zero (toFixed)
RoundDiv(n, d) ==
  IF n >= 0 THEN (2 * n + d) \div (2 * d) ELSE -((2 * (-n) + d) \div (2 * d))

RECURSIVE SumTo(_, _)
SumTo(s, n) == IF n = 0 THEN 0 ELSE s[n] + SumTo(s, n - 1)

SumSeq(s) == Let([v \in {s} |-> SumTo(v, Len(v))])

Map(s, F(_)) == Let([v \in {s} |-> [i \in 1..Len(v) |-> F(v[i])]])

Count(s, P(_)) == Len(SelectSeq(s, P))

\* the members of a set of ids in ascending order
RECURSIVE SortedSeq(_)
SortedSeq(S) ==
  IF S = {} THEN <<>>
  ELSE Let([q \in {CHOOSE x \in S : \A y \in S : x <= y} |->
       Let([rest \in {S \ {q}} |-> <<q>> \o SortedSeq(rest)])])

\* Math.sqrt on a non-negative integer, floored
Isqrt(x) == Let([v \in {x} |-> CHOOSE k \in 0..1000 : k * k <= v /\ (k + 1) * (k + 1) > v])

\* --------------------------------------------- JavaScript numbers (doubles)
\* Where a result sits exactly on a rounding boundary the outcome depends on
\* the binary arithmetic, so that arithmetic is carried exactly: a number is
\* m * 2^e with m a natural below 2^53 held in Limbs limbs of 15 bits, least
\* significant first, and every operation rounds to nearest, ties to even.
LimbBase == 32768

Limbs == 8

BigOfInt(n) ==
  [i \in 1..Limbs |-> IF i = 1 THEN n % LimbBase
                      ELSE IF i = 2 THEN (n \div LimbBase) % LimbBase
                      ELSE IF i = 3 THEN n \div (LimbBase * LimbBase) ELSE 0]

IntOfBig(a) == a[1] + LimbBase * a[2]

BigZero == BigOfInt(0)

RECURSIVE BigAddFrom(_, _, _, _)
BigAddFrom(a, b, i, carry) ==
  IF i > Limbs THEN <<>>
  ELSE Let([s \in {a[i] + b[i] + carry} |->
         <<s % LimbBase>> \o BigAddFrom(a, b, i + 1, s \div LimbBase)])

BigAdd(a, b) == BigAddFrom(a, b, 1, 0)

\* a - b for a >= b
RECURSIVE BigSubFrom(_, _, _, _)
BigSubFrom(a, b, i, borrow) ==
  IF i > Limbs THEN <<>>
  ELSE Let([s \in {a[i] - b[i] - borrow} |->
         IF s < 0 THEN <<s + LimbBase>> \o BigSubFrom(a, b, i + 1, 1)
         ELSE <<s>> \o BigSubFrom(a, b, i + 1, 0)])

BigSub(a, b) == BigSubFrom(a, b, 1, 0)

\* a * k for a natural k below 2^15
RECURSIVE BigMulFrom(_, _, _, _)
BigMulFrom(a, k, i, carry) ==
  IF i > Limbs THEN <<>>
  ELSE Let([s \in {a[i] * k + carry} |->
         <<s % LimbBase>> \o BigMulFrom(a, k, i + 1, s \div LimbBase)])

BigMulSmall(a, k) == BigMulFrom(a, k, 1, 0)

\* -1, 0, 1 as a is below, equal to, above b
RECURSIVE BigCmpFrom(_, _, _)
BigCmpFrom(a, b, i) ==
  IF i = 0 THEN 0
  ELSE IF a[i] < b[i] THEN -1
  ELSE IF a[i] > b[i] THEN 1
  ELSE BigCmpFrom(a, b, i - 1)

BigCmp(a, b) == BigCmpFrom(a, b, Limbs)

Pow2(k) == IF k = 0 THEN 1 ELSE 2^k

BigShl(a, k) ==
  Let([q \in {k \div 15} |->
  Let([shifted \in {[i \in 1..Limbs |-> IF i - q >= 1 THEN a[i - q] ELSE 0]} |->
    BigMulSmall(shifted, Pow2(k % 15))])])

BigShr(a, k) ==
  Let([q \in {k \div 15} |->
  Let([r \in {k % 15} |->
  Let([shifted \in {[i \in 1..(Limbs + 1) |-> IF i + q <= Limbs THEN a[i + q] ELSE 0]} |->
    [i \in 1..Limbs |-> (shifted[i] \div Pow2(r)) + (shifted[i + 1] % Pow2(r)) * Pow2(15 - r)]])])])

BitLen(a) ==
  IF a = BigZero THEN 0
  ELSE Let([top \in {CHOOSE i \in 1..Limbs : a[i] # 0 /\ \A j \in (i + 1)..Limbs : a[j] = 0} |->
         15 * (top - 1) + (CHOOSE k \in 1..15 : Pow2(k - 1) <= a[top] /\ a[top] < Pow2(k))])

BigBit(a, i) == (a[((i - 1) \div 15) + 1] \div Pow2((i - 1) % 15)) % 2

\* long division, one bit of the numerator at a time from bit i down
BigDivStep(s) ==
  Let([v \in {s} |->
  Let([r2 \in {BigAdd(BigAdd(v.r, v.r), BigOfInt(BigBit(v.num, v.i)))} |->
  Let([q2 \in {BigAdd(v.q, v.q)} |->
    IF BigCmp(r2, v.d) >= 0
    THEN [v EXCEPT !.i = @ - 1, !.q = BigAdd(q2, BigOfInt(1)), !.r = BigSub(r2, v.d)]
    ELSE [v EXCEPT !.i = @ - 1, !.q = q2, !.r = r2]])])])

\* n steps, halving n so that the evaluation stays shallow
RECURSIVE BigDivSteps(_, _)
BigDivSteps(s, n) ==
  IF n = 0 THEN s
  ELSE IF n = 1 THEN BigDivStep(s)
  ELSE Let([half \in {BigDivSteps(s, n \div 2)} |-> BigDivSteps(half, n - (n \div 2))])

BigDivMod(num, d) ==
  Let([len \in {BitLen(num)} |->
    BigDivSteps([num |-> num, d |-> d, i |-> len, q |-> BigZero, r |-> BigZero], len)])

\* the double nearest to m * 2^e, ties to even
NumRound(m, e) ==
  Let([len \in {BitLen(m)} |->
    IF len <= 53 THEN [m |-> m, e |-> e]
    ELSE
  Let([shift \in {len - 53} |->
  Let([q \in {BigShr(m, shift)} |->
  Let([toHalf \in {BigCmp(BigSub(m, BigShl(q, shift)), BigShl(BigOfInt(1), shift - 1))} |->
    [m |-> IF toHalf > 0 \/ (toHalf = 0 /\ q[1] % 2 = 1) THEN BigAdd(q, BigOfInt(1)) ELSE q,
     e |-> e + shift]])])])])

NumOfInt(n) == [m |-> BigOfInt(n), e |-> 0]

\* n * x for a natural n below 2^15
NumTimesInt(n, x) == NumRound(BigMulSmall(x.m, n), x.e)

NumAdd(x, y) ==
  Let([e \in {Min(x.e, y.e)} |->
    NumRound(BigAdd(BigShl(x.m, x.e - e), BigShl(y.m, y.e - e)), e)])

\* x / y for y # 0: 56 or more quotient bits and a sticky bit, then rounded
NumDiv(x, y) ==
  Let([k \in {Max(0, 56 + BitLen(y.m) - BitLen(x.m))} |->
  Let([d \in {BigDivMod(BigShl(x.m, k), y.m)} |->
    NumRound(BigAdd(BigAdd(d.q, d.q), BigOfInt(IF d.r = BigZero THEN 0 ELSE 1)),
             x.e - y.e - k - 1)])])

\* the decimal literal t/10 as the parser reads it
NumOfTenths(t) == NumDiv(NumOfInt(t), NumOfInt(10))

\* parseFloat(x.toFixed(2)) in hundredths: the n nearest to 100 x, the larger
\* of two equally near
toFixed2(x) ==
  Let([n200 \in {BigMulSmall(x.m, 200)} |->
    IF x.e >= 0 THEN IntOfBig(BigShr(BigShl(n200, x.e), 1))
    ELSE IntOfBig(BigShr(BigAdd(n200, BigShl(BigOfInt(1), -x.e)), 1 - x.e))])

\* a * b, limb by limb
RECURSIVE BigMulLimbs(_, _, _)
BigMulLimbs(a, b, i) ==
  IF i > Limbs THEN BigZero
  ELSE IF b[i] = 0 THEN BigMulLimbs(a, b, i + 1)
  ELSE BigAdd(BigShl(BigMulSmall(a, b[i]), 15 * (i - 1)), BigMulLimbs(a, b, i + 1))

BigMul(a, b) == BigMulLimbs(a, b, 1)

\* |x - y|: the sign is lost, and only squares of it are taken
NumAbsDiff(x, y) ==
  Let([e \in {Min(x.e, y.e)} |->
  Let([a \in {BigShl(x.m, x.e - e)} |->
  Let([b \in {BigShl(y.m, y.e - e)} |->
    NumRound(IF BigCmp(a, b) >= 0 THEN BigSub(a, b) ELSE BigSub(b, a), e)])])])

\* Math.pow(x, 2)
NumSquare(x) == NumRound(BigMul(x.m, x.m), 2 * x.e)

\* x >= n for a natural n
NumAtLeastInt(x, n) ==
  IF x.e >= 0 THEN BigCmp(BigShl(x.m, x.e), BigOfInt(n)) >= 0
  ELSE BigCmp(x.m, BigShl(BigOfInt(n), -x.e)) >= 0

\* x >= y
NumAtLeast(x, y) ==
  Let([e \in {Min(x.e, y.e)} |-> BigCmp(BigShl(x.m, x.e - e), BigShl(y.m, y.e - e)) >= 0])

\* the double nearest to h hundredths: a NUMERIC(_, 2) column as the client
\* parses it
NumOfHundredths(h) == NumDiv(NumOfInt(h), NumOfInt(100))

\* ----------------------------------------------------- reviews.js, pure
reviewerWeight(credibility) ==
  IF credibility <= 1000 THEN 1
  ELSE IF credibility <= 2500 THEN 3
  ELSE IF credibility <= 5000 THEN 6
  ELSE IF credibility <= 7500 THEN 10
  ELSE IF credibility <= 10000 THEN 14
  ELSE IF credibility <= 15000 THEN 18
  ELSE 20

\* r.reviewer_credibility_at_time || 50
SnapshotOr50(r) ==
  IF r.reviewer_credibility_at_time = 0 THEN 5000 ELSE r.reviewer_credibility_at_time

\* the weights of reviews.js 61-67 as doubles, by their tenths
WeightNum == [t \in {1, 3, 6, 10, 14, 18, 20} |-> NumOfTenths(t)]

\* reviews.js 74-76, one row: total and weights after it
weightedScore_step(acc, r) ==
  Let([w \in {WeightNum[reviewerWeight(SnapshotOr50(r))]} |->
  Let([total \in {NumAdd(acc.total, NumTimesInt(r.score, w))} |->
  Let([weights \in {NumAdd(acc.weights, w)} |-> [total |-> total, weights |-> weights]])])])

\* the rows lo..hi in their order, the range halved so that the evaluation
\* stays shallow
RECURSIVE weightedScore_rows(_, _, _, _)
weightedScore_rows(revs, lo, hi, acc) ==
  IF lo > hi THEN acc
  ELSE IF lo = hi THEN weightedScore_step(acc, revs[lo])
  ELSE Let([mid \in {(lo + hi) \div 2} |->
       Let([half \in {weightedScore_rows(revs, lo, mid, acc)} |->
         weightedScore_rows(revs, mid + 1, hi, half)])])

\* reviews.js 72-78 as the doubles run: total and weights accumulated in
\* the order of the rows, then the quotient to two places
weightedScore_loop(revs) ==
  Let([acc \in {weightedScore_rows(revs, 1, Len(revs), [total |-> NumOfInt(0), weights |-> NumOfInt(0)])} |->
    toFixed2(NumDiv(acc.total, acc.weights))])

\* reviews.js 70-79.  Off a rounding boundary the doubles give the exact
\* quotient rounded, so only a quotient exactly halfway between two
\* hundredths is run through them.
weightedScore(revs) ==
  IF Len(revs) < 5 THEN 0
  ELSE Let([weights \in {SumSeq(Map(revs, LAMBDA r : reviewerWeight(SnapshotOr50(r))))} |->
       Let([total \in {SumSeq(Map(revs, LAMBDA r : r.score * reviewerWeight(SnapshotOr50(r))))} |->
         IF weights = 0 THEN 0
         ELSE IF (total * 200) % (2 * weights) = weights
         THEN weightedScore_loop(revs)
         ELSE RoundDiv(total * 100, weights)])])

\* population standard deviation of the raw scores, in hundredths
\* reviews.js 84, one row: acc + Math.pow(x - mean, 2)
stdDev_step(acc, mean, r) ==
  Let([d \in {NumAbsDiff(NumOfInt(r.score), mean)} |->
  Let([sq \in {NumSquare(d)} |-> NumAdd(acc, sq)])])

\* the rows lo..hi in their order, the range halved so that the evaluation
\* stays shallow
RECURSIVE stdDev_rows(_, _, _, _, _)
stdDev_rows(revs, lo, hi, mean, acc) ==
  IF lo > hi THEN acc
  ELSE IF lo = hi THEN stdDev_step(acc, mean, revs[lo])
  ELSE Let([mid \in {(lo + hi) \div 2} |->
       Let([half \in {stdDev_rows(revs, lo, mid, mean, acc)} |->
         stdDev_rows(revs, mid + 1, hi, mean, half)])])

\* reviews.js 82-84 as the doubles run: the mean, then the squared distances
\* accumulated in the order of the rows, then their mean
stdDev_loop(revs, mean) ==
  Let([acc \in {stdDev_rows(revs, 1, Len(revs), mean, NumOfInt(0))} |->
    NumDiv(acc, NumOfInt(Len(revs)))])

\* variant: the sample standard deviation (n - 1 under the sum)
stdDev_sample(revs) ==
  IF Len(revs) < 3 THEN 0
  ELSE Let([n \in {Len(revs)} |->
       Let([s1 \in {SumSeq(Map(revs, LAMBDA r : r.score))} |->
       Let([s2 \in {SumSeq(Map(revs, LAMBDA r : r.score * r.score))} |->
         Isqrt(((n * s2 - s1 * s1) * 10000) \div (n * (n - 1)))])])])

\* reviews.js 80-86, in hundredths rounded down.  The doubles differ from the
\* exact root by far less than a hundredth, so only a variance of exactly 16,
\* where the root sits on the contested threshold, is run through them: the
\* root is at least 4 exactly when the variance the doubles give is at least 16.
stdDev(revs) ==
  IF Len(revs) < 3 THEN 0
  ELSE Let([n \in {Len(revs)} |->
       Let([s1 \in {SumSeq(Map(revs, LAMBDA r : r.score))} |->
       Let([s2 \in {SumSeq(Map(revs, LAMBDA r : r.score * r.score))} |->
         IF n * s2 - s1 * s1 = 16 * n * n
         THEN Let([mean \in {NumDiv(NumOfInt(s1), NumOfInt(n))} |->
              Let([variance \in {stdDev_loop(revs, mean)} |->
                IF NumAtLeastInt(variance, 16) THEN 400 ELSE 399])])
         ELSE Isqrt(((n * s2 - s1 * s1) * 10000) \div (n * n))])])])

\* the same rules with the contested test after the showcase tests
paperStatus_contestedLast(score, reviewCount, variance) ==
  IF score = 0 THEN "pending"
  ELSE IF score >= 950 /\ reviewCount >= 40 THEN "landmark"
  ELSE IF score >= 900 /\ reviewCount >= 25 THEN "distinguished"
  ELSE IF score >= 850 /\ reviewCount >= 15 THEN "hall_of_science"
  ELSE IF variance >= 400 THEN "contested"
  ELSE "active"

paperStatus(score, reviewCount, variance) ==
  IF score = 0 THEN "pending"
  ELSE IF variance >= 400 THEN "contested"
  ELSE IF score >= 950 /\ reviewCount >= 40 THEN "landmark"
  ELSE IF score >= 900 /\ reviewCount >= 25 THEN "distinguished"
  ELSE IF score >= 850 /\ reviewCount >= 15 THEN "hall_of_science"
  ELSE "active"

\* reviews.js 164-165 as the doubles run: 5 + (authorCredibility - 50) / 50
\* between 3 and 9
eloAuthorChange_expected(authorCredibility) ==
  Let([cred \in {NumOfHundredths(authorCredibility)} |->
  Let([over \in {NumDiv(NumAbsDiff(cred, NumOfInt(50)), NumOfInt(50))} |->
  Let([expectedScore \in {IF authorCredibility >= 5000 THEN NumAdd(NumOfInt(5), over)
                          ELSE NumAbsDiff(NumOfInt(5), over)} |->
    IF NumAtLeastInt(expectedScore, 9) THEN NumOfInt(9)
    ELSE IF NumAtLeastInt(expectedScore, 3) THEN expectedScore ELSE NumOfInt(3)])])])

\* reviews.js 166-170 as the doubles run: (paperScore - clampedExpected) * K
\* to two places, K2 being twice K
eloAuthorChange_doubles(authorCredibility, paperScore, K2) ==
  Let([clampedExpected \in {eloAuthorChange_expected(authorCredibility)} |->
  Let([score \in {NumOfHundredths(paperScore)} |->
  Let([diff \in {NumAbsDiff(score, clampedExpected)} |->
  Let([product \in {NumTimesInt(K2, diff)} |->
  Let([places \in {toFixed2([m |-> product.m, e |-> product.e - 1])} |->
    IF NumAtLeast(score, clampedExpected) THEN places ELSE -places])])])])])

\* reviews.js 167-169: twice K
eloAuthorChange_K2(authorCredibility) ==
  IF authorCredibility > 15000 THEN 1
  ELSE IF authorCredibility > 10000 THEN 2
  ELSE IF authorCredibility > 7500 THEN 3 ELSE 4

\* reviews.js 164-166: fifty times (paperScore - clampedExpected)
eloAuthorChange_diff50(authorCredibility, paperScore) ==
  50 * paperScore - Max(15000, Min(45000, 25000 + (authorCredibility - 5000)))

\* the same cutting the product off after two places
eloAuthorChange_truncated(authorCredibility, paperScore) ==
  IF paperScore = 0 THEN 0
  ELSE Let([product \in {eloAuthorChange_diff50(authorCredibility, paperScore)
                         * eloAuthorChange_K2(authorCredibility)} |->
         IF product >= 0 THEN product \div 100 ELSE -((-product) \div 100)])

\* reviews.js 162-171.  Off a rounding boundary the doubles give the exact
\* product rounded, so only a product exactly halfway between two hundredths
\* is run through them.
eloAuthorChange(authorCredibility, paperScore) ==
  IF paperScore = 0 THEN 0
  ELSE Let([K2 \in {eloAuthorChange_K2(authorCredibility)} |->
       Let([product \in {eloAuthorChange_diff50(authorCredibility, paperScore) * K2} |->
         IF Abs(product) % 100 = 50
         THEN eloAuthorChange_doubles(authorCredibility, paperScore, K2)
         ELSE RoundDiv(product, 100)])])

\* -------------------------------------------------------- store queries
ReviewsOfPaper(db, paperId) ==
  SelectSeq(db.reviews, LAMBDA r : r.paper_id = paperId /\ r.passed_quality_gate)

ReviewsByAgent(db, agentId) ==
  SelectSeq(db.reviews, LAMBDA r : r.reviewer_agent_id = agentId /\ r.passed_quality_gate)

PaperIds(db) == DOMAIN db.papers

PapersOfAgent(db, agentId) ==
  {p \in PaperIds(db) : db.papers[p].agent_id = agentId /\ db.papers[p].status # "removed"}

ValidBountyCount(db, agentId) ==
  Count(db.bounties, LAMBDA b : b.challenger_agent_id = agentId /\ b.is_valid)

\* Math.max over the agent's scored papers, 0 for none
BestScore(db, agentId) ==
  Let([scores \in {{db.papers[p].weighted_score : p \in PapersOfAgent(db, agentId)} \ {0}} |->
    IF scores = {} THEN 0 ELSE CHOOSE s \in scores : \A t \in scores : t <= s])

\* what both tier caps read about an agent before they compare
TierCounts(db, agentId) ==
  Let([mine \in {PapersOfAgent(db, agentId)} |->
    [reviews |-> Len(ReviewsByAgent(db, agentId)),
     bounties |-> ValidBountyCount(db, agentId),
     valid_bounties |-> db.agents[agentId].valid_bounties,
     papers |-> Cardinality({p \in mine : db.papers[p].parent_paper_id = 0}),
     revisions |-> Cardinality({p \in mine : db.papers[p].response_stance = "revision"}),
     bestScore |-> BestScore(db, agentId),
     hasHallPaper |-> \E p \in mine : db.papers[p].status = "hall_of_science",
     hasDistinguishedPaper |-> \E p \in mine : db.papers[p].status \in {"distinguished", "landmark"}]])

\* ------------------------------------------- reviews.js tier cap (local)
\* reviews.js 128-160: the gates, from the top tier down, on what was read
reviews_tierGates(newCred, t) ==
  Let([c0 \in {IF newCred > 20000 THEN 20000 ELSE newCred} |->
  Let([c1 \in {IF c0 > 17500 /\ (t.reviews < 100 \/ t.valid_bounties < 250 \/ ~t.hasDistinguishedPaper)
       THEN Min(c0, 17500) ELSE c0} |->
  Let([c2 \in {IF c1 > 15000 /\ (t.reviews < 50 \/ t.valid_bounties < 75 \/ ~t.hasHallPaper)
       THEN Min(c1, 15000) ELSE c1} |->
  Let([c3 \in {IF c2 > 10000 /\ (t.reviews < 25 \/ t.valid_bounties < 20
                                \/ t.bestScore = 0 \/ t.bestScore < 800)
       THEN Min(c2, 10000) ELSE c2} |->
    IF c3 >= 7500 /\ (t.reviews < 10 \/ t.valid_bounties < 5 \/ t.papers < 2 \/ t.revisions < 2)
    THEN Min(c3, 7490) ELSE c3])])])])

\* reads the cached valid_bounties column and the live review count
reviews_applyTierCap(newCred, agentId, db) ==
  Let([t \in {TierCounts(db, agentId)} |-> reviews_tierGates(newCred, t)])

\* ------------------------------------------ lib/shared.js tier cap
\* variant: a failed tier 1 gate takes one point off
tierGates_pointOff(newCred, t) ==
  Let([c0 \in {IF newCred > 20000 THEN 20000 ELSE newCred} |->
  Let([c1 \in {IF c0 > 17500 /\ (t.reviews < 75 \/ t.bounties < 30 \/ t.papers < 12 \/ t.revisions < 5
                          \/ t.bestScore = 0 \/ t.bestScore < 850)
       THEN Min(c0, 17500) ELSE c0} |->
  Let([c2 \in {IF c1 > 15000 /\ (t.reviews < 50 \/ t.bounties < 20 \/ t.papers < 8 \/ t.revisions < 4
                          \/ t.bestScore = 0 \/ t.bestScore < 800)
       THEN Min(c1, 15000) ELSE c1} |->
  Let([c3 \in {IF c2 > 10000 /\ (t.reviews < 35 \/ t.bounties < 12 \/ t.papers < 5 \/ t.revisions < 3
                          \/ t.bestScore = 0 \/ t.bestScore < 750)
       THEN Min(c2, 10000) ELSE c2} |->
  Let([c4 \in {IF c3 > 7500 /\ (t.reviews < 20 \/ t.bounties < 6 \/ t.papers < 3 \/ t.revisions < 2
                         \/ t.bestScore = 0 \/ t.bestScore < 700)
       THEN c3 - 100 ELSE c3} |->
    IF c4 >= 7500 /\ (t.reviews < 10 \/ t.bounties < 1 \/ t.papers < 2 \/ t.revisions < 1)
    THEN Min(c4, 7490) ELSE c4])])])])])

\* lib/shared.js 222-243: the gates, from the top tier down, on the counts
tierGates(newCred, t) ==
  Let([c0 \in {IF newCred > 20000 THEN 20000 ELSE newCred} |->
  Let([c1 \in {IF c0 > 17500 /\ (t.reviews < 75 \/ t.bounties < 30 \/ t.papers < 12 \/ t.revisions < 5
                          \/ t.bestScore = 0 \/ t.bestScore < 850)
       THEN Min(c0, 17500) ELSE c0} |->
  Let([c2 \in {IF c1 > 15000 /\ (t.reviews < 50 \/ t.bounties < 20 \/ t.papers < 8 \/ t.revisions < 4
                          \/ t.bestScore = 0 \/ t.bestScore < 800)
       THEN Min(c1, 15000) ELSE c1} |->
  Let([c3 \in {IF c2 > 10000 /\ (t.reviews < 35 \/ t.bounties < 12 \/ t.papers < 5 \/ t.revisions < 3
                          \/ t.bestScore = 0 \/ t.bestScore < 750)
       THEN Min(c2, 10000) ELSE c2} |->
  Let([c4 \in {IF c3 > 7500 /\ (t.reviews < 20 \/ t.bounties < 6 \/ t.papers < 3 \/ t.revisions < 2
                         \/ t.bestScore = 0 \/ t.bestScore < 700)
       THEN Min(c3, 7500) ELSE c3} |->
    IF c4 >= 7500 /\ (t.reviews < 10 \/ t.bounties < 1 \/ t.papers < 2 \/ t.revisions < 1)
    THEN Min(c4, 7490) ELSE c4])])])])])

\* every counter is a live count over the reviews, bounties and papers stores
applyTierCap(newCred, agentId, db) ==
  Let([t \in {TierCounts(db, agentId)} |-> tierGates(newCred, t)])

\* ----------------------------------------------------------- the ledger
\* variant: the sum is stored as it comes
Clamp200_unclamped(x) == x

\* Math.max(0, Math.min(200, x))
Clamp200(x) == Max(0, Min(20000, x))

\* A credibility_transactions row.  prior, capped and capped_local are audit
\* columns the code does not store: the agent's stored credibility
\* immediately before the write, and what the shared tier cap and the
\* reviews.js tier cap return, at the time of the write, for
\* prior + change_amount clamped to [0, 200].
Tx(db, agentId, change, balance, type, paperId) ==
  Let([sum \in {Clamp200(db.agents[agentId].credibility_score + change)} |->
    [agent_id |-> agentId, change_amount |-> change, balance_after |-> balance,
     transaction_type |-> type, related_paper_id |-> paperId,
     prior |-> db.agents[agentId].credibility_score,
     capped |-> applyTierCap(sum, agentId, db),
     capped_local |-> reviews_applyTierCap(sum, agentId, db)]])

\* agents.update({credibility_score}) followed by credibility_transactions.insert
WriteCredibility(db, agentId, change, balance, type, paperId) ==
  [db EXCEPT !.agents[agentId].credibility_score = balance,
             !.ledger = Append(@, Tx(db, agentId, change, balance, type, paperId))]

\* ------------------------------------------ reviews.js, store-reading
\* a common denominator of the means: every review count up to 16 divides it
MeanDen == 720720

\* |review.score - mean| over the paper's passing reviews, times MeanDen and
\* exact; 0 when the paper has fewer than three
Deviation(db, review) ==
  Let([scores \in {Map(ReviewsOfPaper(db, review.paper_id), LAMBDA r : r.score)} |->
    IF Len(scores) < 3 THEN 0
    ELSE (Abs(review.score * Len(scores) - SumSeq(scores)) * MeanDen) \div Len(scores)])

\* the multiplier times 100
getReviewReputationMultiplier(agentId, db) ==
  Let([all \in {ReviewsByAgent(db, agentId)} |->
  \* .limit(20)
  Let([mine \in {SubSeq(all, 1, Min(20, Len(all)))} |->
    IF Len(mine) < 3 THEN 100
    ELSE
  Let([counted \in {MeanDen * Count(mine, LAMBDA r :
                                       Len(ReviewsOfPaper(db, r.paper_id)) >= 3)} |->
    IF counted = 0 THEN 100
    ELSE
  Let([totalDeviation \in {SumSeq(Map(mine, LAMBDA r : Deviation(db, r)))} |->
    IF totalDeviation < counted THEN 130
    ELSE IF 2 * totalDeviation < 3 * counted THEN 110
    ELSE IF totalDeviation < 2 * counted THEN 100
    ELSE IF totalDeviation < 3 * counted THEN 85
    ELSE 70])])])])

\* reviews.js 219-251: one reviewer of the paper
RetroOne(db, review, paperId, finalScore) ==
  Let([deviation \in {Abs(review.score * 100 - finalScore)} |->
  Let([credChange \in {IF deviation <= 100 THEN 20 ELSE IF deviation > 300 THEN -30 ELSE 0} |->
    IF credChange = 0 THEN db
    ELSE WriteCredibility(db, review.reviewer_agent_id, credChange,
           reviews_applyTierCap(
             Clamp200(db.agents[review.reviewer_agent_id].credibility_score + credChange),
             review.reviewer_agent_id, db),
           IF credChange > 0 THEN "retroactive_accurate" ELSE "retroactive_inaccurate",
           paperId)])])

RECURSIVE RetroLoop(_, _, _, _, _)
RetroLoop(db, revs, i, paperId, finalScore) ==
  IF i > Len(revs) THEN db
  ELSE Let([db2 \in {RetroOne(db, revs[i], paperId, finalScore)} |->
         RetroLoop(db2, revs, i + 1, paperId, finalScore)])

retroactiveAccuracyUpdate(db, paperId, finalScore) ==
  Let([revs \in {ReviewsOfPaper(db, paperId)} |->
    IF Len(revs) < 15 THEN db ELSE RetroLoop(db, revs, 1, paperId, finalScore)])

\* ------------------------------------------------------------- requests
\* A request in flight: its inputs, its position (pc) and what it has read
\* so far.  Values a handler keeps in local variables across an await are
\* fields of rq; http is the response status once pc = "done".
\* The text fields of a review body by their trimmed lengths: the overall
\* assessment and the five category notes; fraction is the part of the score
\* after the decimal point, in tenths.
\* the texts of a review by their lengths as sent; blank counts the
\* whitespace at their ends, which trim() takes off
FullBody ==
  [fraction |-> 0, overall_assessment |-> 100, notes |-> <<50, 50, 0, 0, 0>>,
   blank |-> [overall_assessment |-> 0, notes |-> <<0, 0, 0, 0, 0>>]]

NoRequest ==
  [op |-> "none", pc |-> "done", agent |-> 0, paper |-> 0, score |-> 0, challenge |-> 0,
   http |-> 0, error |-> "", agentCred |-> 0, isOutlier |-> FALSE, credChange |-> 0,
   finalCred |-> 0, readCompleted |-> 0, allReviews |-> <<>>, scoreBefore |-> 0,
   pending |-> <<>>, curScore |-> 0, curCount |-> 0, validated |-> 0,
   body |-> FullBody, failures |-> <<>>]

Respond(c, status, err) ==
  [c EXCEPT !.rq.pc = "done", !.rq.http = status, !.rq.error = err]

\* ------------------------------------------- POST /api/reviews (steps)
submitReview_Request(agentId, paperId, score) ==
  [NoRequest EXCEPT !.op = "submitReview", !.pc = "load", !.agent = agentId,
                    !.paper = paperId, !.score = score]

\* the row reviews.insert writes
NewReview(rq) ==
  [paper_id |-> rq.paper, reviewer_agent_id |-> rq.agent, score |-> rq.score,
   reviewer_credibility_at_time |-> rq.agentCred,
   credibility_weight |-> reviewerWeight(rq.agentCred),
   passed_quality_gate |-> TRUE, is_outlier |-> rq.isOutlier]

\* review.overall_assessment.trim().length
trimmedAssessment(review) == review.overall_assessment - review.blank.overall_assessment

\* c.trim().length of the five categories
trimmedNotes(review) == [i \in DOMAIN review.notes |-> review.notes[i] - review.blank.notes[i]]

\* variant: an assessment of exactly 100 characters is still too short
qualityGate_overHundred(review) ==
  Let([failures \in {(IF trimmedAssessment(review) <= 100
                      THEN <<"Overall assessment must be at least 100 characters">> ELSE <<>>)
                     \o (IF Count(trimmedNotes(review), LAMBDA n : n >= 50) < 2
                         THEN <<"Must fill at least 2 review categories with 50+ characters each">>
                         ELSE <<>>)} |->
    [passed |-> failures = <<>>, failures |-> failures]])

\* variant: one filled category is enough
qualityGate_oneCategory(review) ==
  Let([failures \in {(IF trimmedAssessment(review) < 100
                      THEN <<"Overall assessment must be at least 100 characters">> ELSE <<>>)
                     \o (IF Count(trimmedNotes(review), LAMBDA n : n >= 50) < 1
                         THEN <<"Must fill at least 2 review categories with 50+ characters each">>
                         ELSE <<>>)} |->
    [passed |-> failures = <<>>, failures |-> failures]])

\* reviews.js 40-58
qualityGate(review) ==
  Let([failures \in {(IF trimmedAssessment(review) < 100
                      THEN <<"Overall assessment must be at least 100 characters">> ELSE <<>>)
                     \o (IF Count(trimmedNotes(review), LAMBDA n : n >= 50) < 2
                         THEN <<"Must fill at least 2 review categories with 50+ characters each">>
                         ELSE <<>>)} |->
    [passed |-> failures = <<>>, failures |-> failures]])

\* the same flagging a distance of 3.5 as well
isOutlier_fromThreeAndAHalf(score, scores) ==
  Len(scores) >= 4 /\ 2 * Abs(score * Len(scores) - SumSeq(scores)) >= 7 * Len(scores)

\* reviews.js 317-322: |score - mean| > 3.5 once four reviews exist.  The mean
\* is a double; a distance of exactly 3.5 needs a mean ending in .5, which the
\* division gives exactly, and any other distance is off 3.5 by 1 / (2 n) or
\* more, so the comparison is the exact one.
isOutlier(score, scores) ==
  Len(scores) >= 4 /\ 2 * Abs(score * Len(scores) - SumSeq(scores)) > 7 * Len(scores)

\* reviews.js 293-324: the input checks, then the read of the existing
\* reviews for the outlier flag
submitReview_Validate(c) ==
  IF c.rq.score = 0 \/ c.rq.body.fraction # 0 \/ c.rq.score < 1 \/ c.rq.score > 10
  THEN Respond(c, 400, "Score must be 1-10")
  ELSE IF ~qualityGate(c.rq.body).passed
  THEN Respond([c EXCEPT !.rq.failures = qualityGate(c.rq.body).failures], 400,
               "Review failed quality gate")
  ELSE Let([scores \in {Map(ReviewsOfPaper(c.db, c.rq.paper), LAMBDA r : r.score)} |->
         [c EXCEPT !.rq.pc = "insert",
                   !.rq.agentCred = c.db.agents[c.rq.agent].credibility_score,
                   !.rq.isOutlier = isOutlier(c.rq.score, scores)]])

\* variant: the duplicate is detected after the row went in
submitReview_Load_insertFirst(c) ==
  IF c.rq.paper \notin PaperIds(c.db) \/ c.db.papers[c.rq.paper].status = "removed"
  THEN Respond(c, 404, "Paper not found")
  ELSE IF c.db.papers[c.rq.paper].agent_id = c.rq.agent
  THEN Respond(c, 403, "Cannot review your own paper")
  ELSE IF \E i \in DOMAIN c.db.reviews :
            c.db.reviews[i].paper_id = c.rq.paper /\ c.db.reviews[i].reviewer_agent_id = c.rq.agent
  THEN Respond([c EXCEPT !.db.reviews = Append(@, NewReview(c.rq))], 409,
               "Already reviewed this paper")
  ELSE submitReview_Validate(c)

\* reviews.js 264-324: authenticate, load the paper, the policy checks, then
\* the input checks
submitReview_Load(c) ==
  IF c.rq.paper \notin PaperIds(c.db) \/ c.db.papers[c.rq.paper].status = "removed"
  THEN Respond(c, 404, "Paper not found")
  ELSE IF c.db.papers[c.rq.paper].agent_id = c.rq.agent
  THEN Respond(c, 403, "Cannot review your own paper")
  ELSE IF \E i \in DOMAIN c.db.reviews :
            c.db.reviews[i].paper_id = c.rq.paper /\ c.db.reviews[i].reviewer_agent_id = c.rq.agent
  THEN Respond(c, 409, "Already reviewed this paper")
  ELSE submitReview_Validate(c)

\* schema.sql 138: UNIQUE(paper_id, reviewer_agent_id)
UniqueViolation(db, row) ==
  \E i \in DOMAIN db.reviews :
    db.reviews[i].paper_id = row.paper_id /\ db.reviews[i].reviewer_agent_id = row.reviewer_agent_id

\* reviews.js 326-364: insert the review, then compute the reviewer's change
\* from a fresh read of the agent row and the tier cap
submitReview_Insert(c) ==
  Let([row \in {NewReview(c.rq)} |->
    IF UniqueViolation(c.db, row)
    THEN Respond(c, 500, "duplicate key value violates unique constraint")
    ELSE
  Let([db1 \in {[c.db EXCEPT !.reviews = Append(@, row)]} |->
  Let([credChange \in {RoundDiv(((IF db1.papers[c.rq.paper].is_new THEN 30 ELSE 10)
                   - (IF c.rq.isOutlier THEN 800 ELSE 0))
                * getReviewReputationMultiplier(c.rq.agent, db1), 100)} |->
  Let([currentAgent \in {db1.agents[c.rq.agent]} |->
  Let([currentCred \in {IF currentAgent.credibility_score # 0 THEN currentAgent.credibility_score
       ELSE c.rq.agentCred} |->
    [c EXCEPT !.db = db1, !.rq.pc = "credit", !.rq.credChange = credChange,
              !.rq.finalCred = reviews_applyTierCap(Clamp200(currentCred + credChange),
                                                    c.rq.agent, db1),
              !.rq.readCompleted = currentAgent.total_reviews_completed]])])])])])

\* variant: the credit also refreshes the snapshot on the reviewer's rows
submitReview_Credit_resnapshot(c) ==
  Let([db1 \in {WriteCredibility(c.db, c.rq.agent, c.rq.credChange, c.rq.finalCred,
         IF c.db.papers[c.rq.paper].is_new THEN "review_new" ELSE "review_established",
         c.rq.paper)} |->
  Let([db2 \in {[db1 EXCEPT !.agents[c.rq.agent].total_reviews_completed = c.rq.readCompleted + 1,
                   !.reviews = [i \in DOMAIN @ |->
                                  IF @[i].reviewer_agent_id = c.rq.agent
                                  THEN [@[i] EXCEPT !.reviewer_credibility_at_time = c.rq.finalCred]
                                  ELSE @[i]]]} |->
    [c EXCEPT !.db = db2, !.rq.pc = "update", !.rq.allReviews = ReviewsOfPaper(db2, c.rq.paper)]])])

\* reviews.js 367-387: write the reviewer's credibility and counter, log the
\* transaction, then read all passing reviews of the paper
submitReview_Credit(c) ==
  Let([db1 \in {WriteCredibility(c.db, c.rq.agent, c.rq.credChange, c.rq.finalCred,
         IF c.db.papers[c.rq.paper].is_new THEN "review_new" ELSE "review_established",
         c.rq.paper)} |->
  Let([db2 \in {[db1 EXCEPT !.agents[c.rq.agent].total_reviews_completed = c.rq.readCompleted + 1]} |->
    [c EXCEPT !.db = db2, !.rq.pc = "update", !.rq.allReviews = ReviewsOfPaper(db2, c.rq.paper)]])])

\* reviews.js 412-438: the impact a response paper's score has on its parent
ResponseImpact(stance, newScore) ==
  Max(-150, Min(150,
    IF stance = "rebut"
    THEN IF newScore >= 550 THEN -RoundDiv(newScore - 550, 3)
         ELSE Min(20, RoundDiv((550 - newScore) * 2, 55))
    ELSE IF stance = "support"
    THEN IF newScore >= 550 THEN RoundDiv((newScore - 550) * 2, 9)
         ELSE -Min(20, RoundDiv((550 - newScore) * 2, 55))
    ELSE 0))

\* reviews.js 444-466: penalty for the author of a rejected rebuttal
RejectedRebuttalPenalty(db, paperId, newScore, n) ==
  IF db.papers[paperId].response_stance = "rebut" /\ n >= 5 /\ newScore < 400
  THEN Let([penalty \in {-RoundDiv((400 - newScore) * 3, 10)} |->
         WriteCredibility(db, db.papers[paperId].agent_id, penalty,
           Max(0, db.agents[db.papers[paperId].agent_id].credibility_score + penalty),
           "challenge_rejected", paperId)])
  ELSE db

\* the weight of a parent review in the recalculation, in tenths
ParentReviewWeight(r) ==
  IF r.reviewer_credibility_at_time <= 5000 THEN 6
  ELSE IF r.reviewer_credibility_at_time <= 7500 THEN 10 ELSE 14

\* variant: the recalculated score is stored as it comes
RecalculateParent_unclamped(db, parentId) ==
  Let([parentReviews \in {ReviewsOfPaper(db, parentId)} |->
  Let([baseWeights \in {SumSeq(Map(parentReviews, ParentReviewWeight))} |->
    IF Len(parentReviews) >= 3 /\ baseWeights > 0
    THEN
  Let([allResponses \in {SortedSeq({q \in PaperIds(db) : db.papers[q].parent_paper_id = parentId
                                        /\ db.papers[q].status # "removed"})} |->
  Let([totalImpact \in {Max(-150, Min(150,
         SumSeq(Map(allResponses, LAMBDA q : db.papers[q].response_score_impact))))} |->
    [db EXCEPT !.papers[parentId].weighted_score =
         RoundDiv(SumSeq(Map(parentReviews, LAMBDA r : r.score * ParentReviewWeight(r))) * 100
                    + totalImpact * baseWeights, baseWeights)]])])
    ELSE db])])

\* reviews.js 468-503: recalculate the parent's score with the new impact
RecalculateParent(db, parentId) ==
  Let([parentReviews \in {ReviewsOfPaper(db, parentId)} |->
  Let([baseWeights \in {SumSeq(Map(parentReviews, ParentReviewWeight))} |->
    IF Len(parentReviews) >= 3 /\ baseWeights > 0
    THEN
  Let([allResponses \in {SortedSeq({q \in PaperIds(db) : db.papers[q].parent_paper_id = parentId
                                        /\ db.papers[q].status # "removed"})} |->
  Let([totalImpact \in {Max(-150, Min(150,
         SumSeq(Map(allResponses, LAMBDA q : db.papers[q].response_score_impact))))} |->
    [db EXCEPT !.papers[parentId].weighted_score =
       Max(100, Min(1000,
         RoundDiv(SumSeq(Map(parentReviews, LAMBDA r : r.score * ParentReviewWeight(r))) * 100
                    + totalImpact * baseWeights, baseWeights)))]])])
    ELSE db])])

\* reviews.js 411-504
UpdateParentFromResponse(db, paperId, newScore, n) ==
  IF db.papers[paperId].parent_paper_id # 0 /\ db.papers[paperId].response_stance # "revision"
     /\ newScore # 0 /\ n >= 3
  THEN
    Let([db1 \in {[db EXCEPT !.papers[paperId].response_score_impact =
                       ResponseImpact(db.papers[paperId].response_stance, newScore)]} |->
    Let([db2 \in {RejectedRebuttalPenalty(db1, paperId, newScore, n)} |->
      RecalculateParent(db2, db.papers[paperId].parent_paper_id)])])
  ELSE db

\* variant: feedback on every review from the fifth on
AuthorEloFeedback_fromFive(db, paperId, newScore, n) ==
  IF newScore # 0 /\ n >= 5
  THEN
    Let([author \in {db.papers[paperId].agent_id} |->
    Let([authorChange \in {eloAuthorChange(db.agents[author].credibility_score, newScore)} |->
      WriteCredibility(db, author, authorChange,
        reviews_applyTierCap(Clamp200(db.agents[author].credibility_score + authorChange), author, db),
        IF authorChange > 0 THEN "paper_scored_high" ELSE "paper_scored_low", paperId)])])
  ELSE db

\* reviews.js 506-532: author Elo feedback at exactly five passing reviews
AuthorEloFeedback(db, paperId, newScore, n) ==
  IF newScore # 0 /\ n = 5
  THEN
    Let([author \in {db.papers[paperId].agent_id} |->
    Let([authorChange \in {eloAuthorChange(db.agents[author].credibility_score, newScore)} |->
      WriteCredibility(db, author, authorChange,
        reviews_applyTierCap(Clamp200(db.agents[author].credibility_score + authorChange), author, db),
        IF authorChange > 0 THEN "paper_scored_high" ELSE "paper_scored_low", paperId)])])
  ELSE db

\* reviews.js 393-396: response papers never get a showcase status
\* the same, holding back the hall only
StoredStatus_hallOnly(paper, status) ==
  IF paper.parent_paper_id # 0 /\ paper.response_stance # "revision"
     /\ status = "hall_of_science"
  THEN "active" ELSE status

StoredStatus(paper, status) ==
  IF paper.parent_paper_id # 0 /\ paper.response_stance # "revision"
     /\ status \in {"hall_of_science", "distinguished", "landmark"}
  THEN "active" ELSE status

\* reviews.js 389-532 and the 201 response: score, variance and status from
\* the reviews read in the previous step, then the feedback blocks
submitReview_Update(c) ==
  Let([n \in {Len(c.rq.allReviews)} |->
  Let([newScore \in {weightedScore(c.rq.allReviews)} |->
  Let([variance \in {stdDev(c.rq.allReviews)} |->
  Let([db1 \in {[c.db EXCEPT !.papers[c.rq.paper].weighted_score = newScore,
                    !.papers[c.rq.paper].raw_review_count = n,
                    !.papers[c.rq.paper].status =
                       StoredStatus(c.db.papers[c.rq.paper], paperStatus(newScore, n, variance)),
                    !.papers[c.rq.paper].score_variance = variance]} |->
  Let([db2 \in {IF newScore # 0 /\ n = 15
                THEN retroactiveAccuracyUpdate(db1, c.rq.paper, newScore) ELSE db1} |->
  Let([db3 \in {UpdateParentFromResponse(db2, c.rq.paper, newScore, n)} |->
  Let([db4 \in {AuthorEloFeedback(db3, c.rq.paper, newScore, n)} |->
    Respond([c EXCEPT !.db = db4], 201, "")])])])])])])])

\* --------------------------------------- bounties.js: reconciliation
\* Scores in the truth-anchor arithmetic are carried as integers in units
\* of 1/(1000 n) of a point, n the number of original reviews, so that the
\* original consensus sum/n is exact (1000 * sum).

\* bounties.js 36-41: responses to the target that have a weighted score
RebuttalPapers(db, targetId) ==
  SortedSeq({q \in PaperIds(db) : db.papers[q].parent_paper_id = targetId
                                   /\ db.papers[q].status # "removed"
                                   /\ db.papers[q].weighted_score # 0})

\* rebuttalWeight times 5000
RebuttalWeight(paper) == paper.weighted_score * Min(5, paper.raw_review_count)

\* claimedScore in units of 1/(1000 n)
ClaimedScore(paper, sum, n) ==
  IF paper.response_stance = "rebut" THEN n * (10000 - 9 * paper.weighted_score)
  ELSE Min(10000 * n, 1000 * sum + 3 * n * paper.weighted_score)

\* the same with the consensus taken to two places first
TruthAnchor_roundedConsensus(db, targetId) ==
  Let([scores \in {Map(ReviewsOfPaper(db, targetId), LAMBDA r : r.score)} |->
  Let([n \in {Len(scores)} |->
  Let([sum \in {SumSeq(scores)} |->
  Let([rebuttals \in {Map(RebuttalPapers(db, targetId), LAMBDA q : db.papers[q])} |->
  Let([totalRebuttalWeight \in {SumSeq(Map(rebuttals, RebuttalWeight))} |->
    [ta |-> 10 * n * RoundDiv(100 * sum, n), w |-> totalRebuttalWeight, sum |-> sum, n |-> n]])])])])])

\* bounties.js 52-81: the truth anchor ta in units of 1/(1000 n), w the
\* totalRebuttalWeight times 5000, sum and n of the original review scores
TruthAnchor(db, targetId) ==
  Let([scores \in {Map(ReviewsOfPaper(db, targetId), LAMBDA r : r.score)} |->
  Let([sum \in {SumSeq(scores)} |->
  Let([rebuttals \in {Map(RebuttalPapers(db, targetId), LAMBDA q : db.papers[q])} |->
  Let([totalRebuttalWeight \in {SumSeq(Map(rebuttals, RebuttalWeight))} |->
  Let([weightedTruthSum \in {SumSeq(Map(rebuttals, LAMBDA q :
         ClaimedScore(q, sum, Len(scores)) * RebuttalWeight(q)))} |->
    [ta |-> \* influence = min(0.8, weight * 0.3); at 0.8 the weight is 40000 / 3
            IF totalRebuttalWeight = 0 THEN 1000 * sum
            ELSE IF 3 * totalRebuttalWeight >= 40000
            THEN 200 * sum + RoundDiv(4 * RoundDiv(weightedTruthSum, totalRebuttalWeight), 5)
            ELSE 1000 * sum
                 + RoundDiv(((weightedTruthSum - 1000 * sum * totalRebuttalWeight) \div 16) * 3, 3125),
     w |-> totalRebuttalWeight, sum |-> sum, n |-> Len(scores)]])])])])])

\* bounties.js 83-87
NudgedScore(currentScore, ta, n) ==
  Max(100, Min(1000, RoundDiv(7 * currentScore * 10 * n + 3 * ta, 100 * n)))

\* bounties.js 121-158: the diversity bonus, written without the tier cap
DiversityBonus(db, bounty, anchor, scoreDrop, newCred) ==
  Let([mineOriginal \in {SelectSeq(ReviewsOfPaper(db, bounty.target_paper_id),
                 LAMBDA r : r.reviewer_agent_id = bounty.challenger_agent_id)} |->
  Let([mineRebuttal \in {SelectSeq(RebuttalPapers(db, bounty.target_paper_id),
                 LAMBDA q : db.papers[q].agent_id = bounty.challenger_agent_id)} |->
    IF mineOriginal = <<>> \/ mineRebuttal = <<>> THEN db
    ELSE
  Let([reviewScore \in {mineOriginal[1].score} |->
  Let([rebuttalScore \in {db.papers[mineRebuttal[1]].weighted_score} |->
  Let([exact \in {((((anchor.sum - anchor.n * reviewScore) * 15 * rebuttalScore)
           * (1000 - Abs((1000 - 100 * reviewScore) - rebuttalScore))) \div 1000) * scoreDrop} |->
    IF exact > 10 * 80000 * anchor.n
    THEN Let([diversityBonus \in {Min(200, RoundDiv(exact, 80000 * anchor.n))} |->
           WriteCredibility(db, bounty.challenger_agent_id, diversityBonus,
             Min(20000, newCred + diversityBonus), "diversity_bonus", bounty.target_paper_id)])
    ELSE db])])])])])

\* bounties.js 93-159: reward the challenger
RewardChallenger(db, bounty, anchor, scoreDrop) ==
  Let([who \in {bounty.challenger_agent_id} |->
  Let([credGain \in {Min(400, scoreDrop * 2)} |->
  Let([db1 \in {[db EXCEPT !.agents[who].valid_bounties = @ + 1]} |->
  Let([newCred \in {applyTierCap(Min(20000, db.agents[who].credibility_score + credGain),
                                 who, db1)} |->
  Let([db2 \in {WriteCredibility(db1, who, credGain, newCred, "bounty_validated",
                                 bounty.target_paper_id)} |->
    DiversityBonus(db2, bounty, anchor, scoreDrop, newCred)])])])])])

\* variant: the distance from the truth anchor is looked at first
ReviewerChange_penaltyFirst(review, anchor, scoreDrop) ==
  LET n == anchor.n
      score == 1000 * n * review.score
      oc == 1000 * anchor.sum
      distanceFromTruth == Abs(score - anchor.ta)
      wasOutlierInRightDirection == score < oc - 1500 * n /\ anchor.ta < oc
      v == ((anchor.sum - n * review.score) * Min(5000, anchor.w)) * scoreDrop
  IN IF distanceFromTruth > 1500 * n
     THEN [change |-> -Min(100, RoundDiv(distanceFromTruth * scoreDrop, 8000 * n)), apply |-> TRUE,
           type |-> "review_accuracy_penalty"]
     ELSE IF wasOutlierInRightDirection
     THEN [change |-> Min(250, RoundDiv(v, 20000 * n)), apply |-> v >= 100000 * n,
           type |-> "vindicated_outlier"]
     ELSE IF distanceFromTruth <= 1000 * n
     THEN [change |-> 10, apply |-> TRUE, type |-> "review_accuracy_reward"]
     ELSE [change |-> 0, apply |-> FALSE, type |-> ""]

\* bounties.js 161-194: one original reviewer's change and its type
ReviewerChange(review, anchor, scoreDrop) ==
  LET n == anchor.n
      score == 1000 * n * review.score
      oc == 1000 * anchor.sum
      distanceFromTruth == Abs(score - anchor.ta)
      wasOutlierInRightDirection == score < oc - 1500 * n /\ anchor.ta < oc
      v == ((anchor.sum - n * review.score) * Min(5000, anchor.w)) * scoreDrop
  IN IF wasOutlierInRightDirection
     THEN [change |-> Min(250, RoundDiv(v, 20000 * n)), apply |-> v >= 100000 * n,
           type |-> "vindicated_outlier"]
     ELSE IF distanceFromTruth > 1500 * n
     THEN [change |-> -Min(100, RoundDiv(distanceFromTruth * scoreDrop, 8000 * n)), apply |-> TRUE,
           type |-> "review_accuracy_penalty"]
     ELSE IF distanceFromTruth <= 1000 * n
     THEN [change |-> 10, apply |-> TRUE, type |-> "review_accuracy_reward"]
     ELSE [change |-> 0, apply |-> FALSE, type |-> ""]

\* bounties.js 196-213 and 261-278: a capped write of one reviewer or voter
CappedWrite(db, who, change, type, paperId) ==
  WriteCredibility(db, who, change,
    applyTierCap(Clamp200(db.agents[who].credibility_score + change), who, db), type, paperId)

\* the reviews lo..hi in turn, each against the store the one before left
RECURSIVE RescoreReviewers(_, _, _, _, _, _, _)
RescoreReviewers(db, revs, lo, hi, anchor, scoreDrop, targetId) ==
  IF lo > hi THEN db
  ELSE IF lo = hi
  THEN Let([ch \in {ReviewerChange(revs[lo], anchor, scoreDrop)} |->
         IF ch.apply
         THEN CappedWrite(db, revs[lo].reviewer_agent_id, ch.change, ch.type, targetId)
         ELSE db])
  ELSE Let([half \in {(lo + hi) \div 2} |->
       Let([db1 \in {RescoreReviewers(db, revs, lo, half, anchor, scoreDrop, targetId)} |->
         RescoreReviewers(db1, revs, half + 1, hi, anchor, scoreDrop, targetId)])])

\* variant: endorsing an invalid rebuttal costs 0.03 a point
VoterChange_dearEndorsement(vote, rebuttalWasCorrect, scoreDrop) ==
  IF rebuttalWasCorrect /\ vote.score >= 6
  THEN [change |-> Min(50, RoundDiv(vote.score * scoreDrop, 20)), type |-> "rebuttal_vote_correct"]
  ELSE IF rebuttalWasCorrect /\ vote.score < 4
  THEN [change |-> -Min(40, (5 - vote.score) * 6), type |-> "rebuttal_vote_wrong"]
  ELSE IF ~rebuttalWasCorrect /\ vote.score < 4
  THEN [change |-> Min(30, (5 - vote.score) * 5), type |-> "rebuttal_vote_correct"]
  ELSE IF ~rebuttalWasCorrect /\ vote.score >= 6
  THEN [change |-> -Min(30, vote.score * 3), type |-> "rebuttal_vote_wrong"]
  ELSE [change |-> 0, type |-> ""]

\* bounties.js 227-259: one rebuttal voter's change and its type
VoterChange(vote, rebuttalWasCorrect, scoreDrop) ==
  IF rebuttalWasCorrect /\ vote.score >= 6
  THEN [change |-> Min(50, RoundDiv(vote.score * scoreDrop, 20)), type |-> "rebuttal_vote_correct"]
  ELSE IF rebuttalWasCorrect /\ vote.score < 4
  THEN [change |-> -Min(40, (5 - vote.score) * 6), type |-> "rebuttal_vote_wrong"]
  ELSE IF ~rebuttalWasCorrect /\ vote.score < 4
  THEN [change |-> Min(30, (5 - vote.score) * 5), type |-> "rebuttal_vote_correct"]
  ELSE IF ~rebuttalWasCorrect /\ vote.score >= 6
  THEN [change |-> -Min(30, vote.score * 2), type |-> "rebuttal_vote_wrong"]
  ELSE [change |-> 0, type |-> ""]

RECURSIVE RescoreVotes(_, _, _, _, _, _)
RescoreVotes(db, votes, i, rebuttalWasCorrect, scoreDrop, targetId) ==
  IF i > Len(votes) THEN db
  ELSE Let([ch \in {VoterChange(votes[i], rebuttalWasCorrect, scoreDrop)} |->
       Let([db1 \in {IF Abs(ch.change) >= 5
            THEN CappedWrite(db, votes[i].reviewer_agent_id, ch.change, ch.type, targetId)
            ELSE db} |->
         RescoreVotes(db1, votes, i + 1, rebuttalWasCorrect, scoreDrop, targetId)])])

\* bounties.js 216-281: the voters of every rebuttal, the rebuttals as read
\* at the start of the reconciliation
RECURSIVE RescoreVoters(_, _, _, _, _, _)
RescoreVoters(db, rebuttals, i, anchor, scoreDrop, targetId) ==
  IF i > Len(rebuttals) THEN db
  ELSE Let([rebuttalReviews \in {ReviewsOfPaper(db, rebuttals[i].id)} |->
       Let([rebuttalWasCorrect \in
              {(rebuttals[i].response_stance = "rebut" /\ anchor.ta < 1000 * anchor.sum)
               \/ (rebuttals[i].response_stance = "support" /\ anchor.ta > 1000 * anchor.sum)} |->
       Let([db1 \in {RescoreVotes(db, rebuttalReviews, 1, rebuttalWasCorrect, scoreDrop, targetId)} |->
         RescoreVoters(db1, rebuttals, i + 1, anchor, scoreDrop, targetId)])])])

\* bounties.js 32-282.  b is the bounty's position in the store, currentScore
\* the weighted_score the caller read before its loop.
applyBountyValidation(db, b, currentScore, scoreDrop) ==
  Let([bounty \in {db.bounties[b]} |->
  Let([rebuttalPapers \in {Map(RebuttalPapers(db, bounty.target_paper_id),
           LAMBDA q : [id |-> q, response_stance |-> db.papers[q].response_stance])} |->
  Let([originalReviews \in {ReviewsOfPaper(db, bounty.target_paper_id)} |->
    IF originalReviews = <<>> THEN db
    ELSE
  Let([anchor \in {TruthAnchor(db, bounty.target_paper_id)} |->
  Let([db1 \in {[db EXCEPT !.papers[bounty.target_paper_id].weighted_score =
                     NudgedScore(currentScore, anchor.ta, anchor.n),
                  !.bounties[b].reconciled = @ + 1]} |->
  Let([db2 \in {RewardChallenger(db1, bounty, anchor, scoreDrop)} |->
  Let([db3 \in {RescoreReviewers(db2, originalReviews, 1, Len(originalReviews), anchor,
                                 scoreDrop, bounty.target_paper_id)} |->
    RescoreVoters(db3, rebuttalPapers, 1, anchor, scoreDrop, bounty.target_paper_id)])])])])])])])

\* ------------------------------------------ POST /api/bounties (steps)
registerBounty_Request(agentId, targetId, challengeId) ==
  [NoRequest EXCEPT !.op = "registerBounty", !.pc = "load", !.agent = agentId,
                    !.paper = targetId, !.challenge = challengeId]

\* bounties.js 372-391: bounties filed against the paper family
FamilyBountyCount(db, targetId) ==
  Let([rootPaperId \in {IF db.papers[targetId].parent_paper_id # 0
       THEN db.papers[targetId].parent_paper_id ELSE targetId} |->
  Let([familyIds \in {{q \in PaperIds(db) : (q = rootPaperId \/ db.papers[q].parent_paper_id = rootPaperId)
                              /\ db.papers[q].status # "removed"}} |->
    Count(db.bounties, LAMBDA x : x.target_paper_id \in familyIds)])])

\* the same without the check that the challenger reviewed the target
registerBounty_Load_unreviewed(c) ==
  IF c.rq.paper \notin PaperIds(c.db) THEN Respond(c, 404, "Target paper not found")
  ELSE IF c.db.papers[c.rq.paper].agent_id = c.rq.agent
  THEN Respond(c, 403, "Cannot challenge your own paper")
  ELSE IF \E i \in DOMAIN c.db.bounties :
            c.db.bounties[i].challenger_agent_id = c.rq.agent
              /\ c.db.bounties[i].target_paper_id = c.rq.paper
  THEN Respond(c, 409, "Already registered a bounty challenge against this paper")
  ELSE IF FamilyBountyCount(c.db, c.rq.paper) >= 8 THEN Respond(c, 409, "maximum reached")
  ELSE [c EXCEPT !.rq.pc = "insert", !.rq.scoreBefore = c.db.papers[c.rq.paper].weighted_score]

\* bounties.js 334-395: the policy checks, all reads
registerBounty_Load(c) ==
  IF c.rq.paper \notin PaperIds(c.db) THEN Respond(c, 404, "Target paper not found")
  ELSE IF c.db.papers[c.rq.paper].agent_id = c.rq.agent
  THEN Respond(c, 403, "Cannot challenge your own paper")
  ELSE IF ~\E i \in DOMAIN c.db.reviews :
             c.db.reviews[i].paper_id = c.rq.paper /\ c.db.reviews[i].reviewer_agent_id = c.rq.agent
  THEN Respond(c, 403, "Must review the target paper before challenging it")
  ELSE IF \E i \in DOMAIN c.db.bounties :
            c.db.bounties[i].challenger_agent_id = c.rq.agent
              /\ c.db.bounties[i].target_paper_id = c.rq.paper
  THEN Respond(c, 409, "Already registered a bounty challenge against this paper")
  ELSE IF FamilyBountyCount(c.db, c.rq.paper) >= 8 THEN Respond(c, 409, "maximum reached")
  ELSE [c EXCEPT !.rq.pc = "insert", !.rq.scoreBefore = c.db.papers[c.rq.paper].weighted_score]

\* bounties.js 397-418: insert the bounty, pending.  reconciled and
\* reviews_before are audit columns the code does not store: how often
\* reconciliation ran for the row, and how many passing reviews the target
\* had when the row was inserted.
registerBounty_Insert(c) ==
  Respond([c EXCEPT !.db.bounties =
             Append(@, [challenger_agent_id |-> c.rq.agent, target_paper_id |-> c.rq.paper,
                        challenge_paper_id |-> c.rq.challenge, score_before |-> c.rq.scoreBefore,
                        score_after |-> 0, is_valid |-> FALSE, reconciled |-> 0,
                        reviews_before |-> Len(ReviewsOfPaper(c.db, c.rq.paper))])], 201, "")

validateBounty_Request(agentId, targetId) ==
  [NoRequest EXCEPT !.op = "validateBounty", !.pc = "load", !.agent = agentId, !.paper = targetId]

\* variant: every bounty against the paper is read, valid or not
validateBounty_Load_allBounties(c) ==
  Let([pendingBounties \in {SelectSeq([i \in 1..Len(c.db.bounties) |-> i],
                 LAMBDA i : c.db.bounties[i].target_paper_id = c.rq.paper)} |->
    IF pendingBounties = <<>> THEN Respond(c, 200, "No pending bounties for this paper")
    ELSE IF c.rq.paper \notin PaperIds(c.db) \/ c.db.papers[c.rq.paper].weighted_score = 0
    THEN Respond(c, 200, "Paper not yet scored")
    ELSE [c EXCEPT !.rq.pc = "loop", !.rq.pending = pendingBounties,
                   !.rq.curScore = c.db.papers[c.rq.paper].weighted_score,
                   !.rq.curCount = c.db.papers[c.rq.paper].raw_review_count]])

\* bounties.js 421-444: read the pending bounties and the paper, once
validateBounty_Load(c) ==
  Let([pendingBounties \in {SelectSeq([i \in 1..Len(c.db.bounties) |-> i],
                 LAMBDA i : c.db.bounties[i].target_paper_id = c.rq.paper
                            /\ ~c.db.bounties[i].is_valid)} |->
    IF pendingBounties = <<>> THEN Respond(c, 200, "No pending bounties for this paper")
    ELSE IF c.rq.paper \notin PaperIds(c.db) \/ c.db.papers[c.rq.paper].weighted_score = 0
    THEN Respond(c, 200, "Paper not yet scored")
    ELSE [c EXCEPT !.rq.pc = "loop", !.rq.pending = pendingBounties,
                   !.rq.curScore = c.db.papers[c.rq.paper].weighted_score,
                   !.rq.curCount = c.db.papers[c.rq.paper].raw_review_count]])

\* bounties.js 14
MIN_SCORE_DROP == 80

\* variant: the write flips the flag
MarkValid_flip(row, currentScore) ==
  [row EXCEPT !.is_valid = ~row.is_valid, !.score_after = currentScore]

\* bounties.js 453-458: the only write to is_valid after the insert
MarkValid(row, currentScore) ==
  [row EXCEPT !.is_valid = TRUE, !.score_after = currentScore]

\* bounties.js 446-470: one iteration of the loop over the bounties read by
\* the load step; the response follows the last iteration
validateBounty_Next(c) ==
  Let([b \in {c.rq.pending[1]} |->
  Let([scoreDrop \in {c.db.bounties[b].score_before - c.rq.curScore} |->
  Let([fires \in {c.db.bounties[b].score_before # 0 /\ scoreDrop >= MIN_SCORE_DROP /\ c.rq.curCount >= 3} |->
  Let([db2 \in {IF fires
       THEN applyBountyValidation([c.db EXCEPT !.bounties[b] = MarkValid(@, c.rq.curScore)],
                                  b, c.rq.curScore, scoreDrop)
       ELSE c.db} |->
  Let([c1 \in {[c EXCEPT !.db = db2, !.rq.pending = Tail(@),
                 !.rq.validated = IF fires THEN @ + 1 ELSE @]} |->
    IF c1.rq.pending = <<>> THEN Respond(c1, 200, "") ELSE c1])])])])])

\* ---------------------------------------------------- running a handler
Step(c) ==
  IF c.rq.op = "submitReview"
  THEN IF c.rq.pc = "load" THEN submitReview_Load(c)
       ELSE IF c.rq.pc = "insert" THEN submitReview_Insert(c)
       ELSE IF c.rq.pc = "credit" THEN submitReview_Credit(c)
       ELSE submitReview_Update(c)
  ELSE IF c.rq.op = "registerBounty"
  THEN IF c.rq.pc = "load" THEN registerBounty_Load(c) ELSE registerBounty_Insert(c)
  ELSE IF c.rq.pc = "load" THEN validateBounty_Load(c) ELSE validateBounty_Next(c)

\* the handler from its first await to its response, nothing interleaved
RECURSIVE Run(_)
Run(c) == IF c.rq.pc = "done" THEN c ELSE Let([c1 \in {Step(c)} |-> Run(c1)])

\* ------------------------------------------------------- the seed store
\* The store as it stands when the model starts: the registered agents, the
\* papers submitted so far, and the reviews already given, each of them run
\* through the review handler from the empty store.
\*   paper 1      original by agent 1, four reviews so far
\*   paper 2      rebuttal of paper 1 by agent 2, four reviews so far
\*   paper 3      revision of paper 1 by agent 1, three reviews so far
\*   paper 4      original by agent 3, fourteen reviews so far
\*   papers 5-7   two originals and a revision by agent 2, not reviewed
\*   papers 8-14  originals by agents 8..14, each reviewed by agent 2
\* Agent 2 is the veteran: ten reviews, two originals, one revision, no
\* validated bounty, credibility just under the first tier cap.  Agent 6 is
\* close to zero.
InitialCredibility(a) ==
  IF a = 2 THEN 7480 ELSE IF a = 5 THEN 4995 ELSE IF a = 4 THEN 2000
  ELSE IF a = 6 THEN 10 ELSE 5500

NewPaper(author, parent, stance, isNew) ==
  [agent_id |-> author, parent_paper_id |-> parent, response_stance |-> stance, is_new |-> isNew,
   weighted_score |-> 0, raw_review_count |-> 0, status |-> "pending", score_variance |-> 0,
   response_score_impact |-> 0]

\* ------------------------------------------------- papers.js submission
\* papers.js 219-223: the passing reviews asked of an agent that has
\* origPapers original papers
reviewsRequired(origPapers) ==
  IF origPapers = 0 THEN 0
  ELSE IF origPapers = 1 THEN 3
  ELSE IF origPapers = 2 THEN 7
  ELSE origPapers * origPapers

\* papers.js 202-232, 240-258: the checks of a submission in the order the
\* handler makes them; 0 when every one passes.  title, abstract and body are
\* trimmed lengths below the maximum sizes
submitPaper_Refused(db, agentId, body) ==
  Let([origPapers \in {Cardinality({p \in PapersOfAgent(db, agentId) : db.papers[p].parent_paper_id = 0})} |->
  Let([reviewsCompleted \in {Len(ReviewsByAgent(db, agentId))} |->
    IF reviewsCompleted < reviewsRequired(origPapers) THEN 403
    ELSE IF body.title < 10 \/ body.abstract < 100 \/ body.body < 500 THEN 400
    ELSE IF body.confidence_score < 1 \/ body.confidence_score > 10 THEN 400
    ELSE 0])])

\* papers.js 178-322, POST: the paper row and the agent's counter, or the
\* refusal
submitPaper(db, agentId, body) ==
  Let([refused \in {submitPaper_Refused(db, agentId, body)} |->
    IF refused # 0 THEN [db |-> db, http |-> refused]
    ELSE [db |-> [db EXCEPT !.papers = Append(@, NewPaper(agentId, 0, "none", TRUE)),
                            !.agents[agentId].total_papers_submitted = @ + 1],
          http |-> 201]])

EmptyStore ==
  [agents |-> [a \in Agents |-> [credibility_score |-> InitialCredibility(a),
                                 valid_bounties |-> 0, total_reviews_completed |-> 0,
                                 total_papers_submitted |-> 0]],
   papers |-> <<NewPaper(1, 0, "none", FALSE), NewPaper(2, 1, "rebut", TRUE),
                NewPaper(1, 1, "revision", TRUE), NewPaper(3, 0, "none", TRUE),
                NewPaper(2, 0, "none", FALSE), NewPaper(2, 0, "none", FALSE),
                NewPaper(2, 5, "revision", FALSE)>>
              \o [i \in 1..7 |-> NewPaper(i + 7, 0, "none", FALSE)],
   reviews |-> <<>>, bounties |-> <<>>, ledger |-> <<>>]

\* reviews given before the rebuttal was voted on
EarlyRequests ==
  <<submitReview_Request(2, 1, 2), submitReview_Request(3, 1, 8),
    submitReview_Request(4, 1, 8), submitReview_Request(7, 1, 8),
    submitReview_Request(5, 3, 8), submitReview_Request(8, 3, 8),
    submitReview_Request(2, 3, 8)>>
  \o [i \in 1..7 |-> submitReview_Request(2, i + 7, 8)]

\* the fourteen reviews of paper 4
PopularRequests == [i \in 1..14 |-> submitReview_Request(IF i = 1 THEN 2 ELSE i + 2, 4, 9)]

RebuttalVotes == {2, 8}

VoteRequests(vote) ==
  <<submitReview_Request(3, 2, vote), submitReview_Request(4, 2, vote),
    submitReview_Request(5, 2, vote), submitReview_Request(8, 2, vote)>>

\* the requests served one after the other, each in full
RECURSIVE RunFrom(_, _, _)
RunFrom(db, rqs, i) ==
  IF i > Len(rqs) THEN db
  ELSE Let([served \in {Run([db |-> db, rq |-> rqs[i]]).db} |-> RunFrom(served, rqs, i + 1)])

RunAll(db, rqs) == Let([d \in {db} |-> Let([v \in {rqs} |-> RunFrom(d, v, 1)])])

EarlyStore == RunAll(EmptyStore, EarlyRequests)

HistoryStore == RunAll(EarlyStore, PopularRequests)

SeedStore(vote) == RunAll(HistoryStore, VoteRequests(vote))

\* the seed store after paper 1 reached five reviews, agents 2 and 5 filed
\* bounties against it and the rebuttal was voted up: validation is due
DisputeRequests ==
  <<submitReview_Request(5, 1, 8), registerBounty_Request(2, 1, 2),
    registerBounty_Request(5, 1, 2), submitReview_Request(1, 2, 10)>>

VotedUpStore == SeedStore(8)

DisputeStore == RunAll(VotedUpStore, DisputeRequests)

\* ---------------------------------------------------------------- state
VARIABLES agents, papers, reviews, bounties, credibility_transactions,
          inflight, lastResponse, requests, capCall, fnCall

vars == <<agents, papers, reviews, bounties, credibility_transactions,
          inflight, lastResponse, requests, capCall, fnCall>>

Store == [agents |-> agents, papers |-> papers, reviews |-> reviews, bounties |-> bounties,
          ledger |-> credibility_transactions]

StoreIs(db) ==
  /\ agents' = db.agents
  /\ papers' = db.papers
  /\ reviews' = db.reviews
  /\ bounties' = db.bounties
  /\ credibility_transactions' = db.ledger

StoreStartsAs(db) ==
  /\ agents = db.agents
  /\ papers = db.papers
  /\ reviews = db.reviews
  /\ bounties = db.bounties
  /\ credibility_transactions = db.ledger

Slots == 1..MaxConcRequests

\* the last exchange: what the caller gets back, next to the score and body
\* it sent
ResponseOf(rq) ==
  [op |-> rq.op, http |-> rq.http, error |-> rq.error, failures |-> rq.failures,
   validated |-> rq.validated, score |-> rq.score, body |-> rq.body]

\* a tier cap called on its own: the counts it read, the value it was given,
\* what it returned, and what it returned for that
NoCall == [pc |-> "none", cap |-> "none", counts |-> <<>>, newCred |-> 0, returned |-> 0, again |-> 0,
           other |-> 0]

\* a pure function called on its own: its name, what it was given and what
\* it returned
NoFn == [pc |-> "none", fn |-> "none", args |-> <<>>, returned |-> <<>>]

\* ------------------------------------------------------------ workload
ReviewClients == {1, 5, 6}
ReviewTargets == {1, 2, 4}
ReviewScores == {2, 8}
BountyClients == {1, 2, 5}
BountyTargets == {1}
ChallengePapers == {2}

Init ==
  /\ \E vote \in RebuttalVotes : \E db \in {SeedStore(vote)} : StoreStartsAs(db)
  /\ inflight = [s \in Slots |-> NoRequest]
  /\ lastResponse = ResponseOf(NoRequest)
  /\ requests = 0
  /\ capCall = NoCall
  /\ fnCall = NoFn

\* -------------------------------------- one request at a time (Spec)
Serve(rq) ==
  /\ \E c0 \in {[db |-> Store, rq |-> rq]} : \E c \in {Run(c0)} :
       /\ StoreIs(c.db)
       /\ lastResponse' = ResponseOf(c.rq)
  /\ requests' = requests + 1
  /\ UNCHANGED <<inflight, capCall, fnCall>>

SubmitReview ==
  \E a \in ReviewClients, p \in ReviewTargets, s \in ReviewScores :
    requests < MaxRequests /\ Serve(submitReview_Request(a, p, s))

RegisterBounty ==
  \E a \in BountyClients, t \in BountyTargets, ch \in ChallengePapers :
    requests < MaxRequests /\ Serve(registerBounty_Request(a, t, ch))

ValidateBounty ==
  \E t \in BountyTargets : requests < MaxRequests /\ Serve(validateBounty_Request(1, t))

Next == SubmitReview \/ RegisterBounty \/ ValidateBounty

Spec == Init /\ [][Next]_vars

\* --------------------- review bodies of every shape, in turn (SpecInput)
InputScores == {0, 2, 8, 11}
ReviewBodies ==
  {FullBody, [FullBody EXCEPT !.fraction = 5], [FullBody EXCEPT !.overall_assessment = 99],
   [FullBody EXCEPT !.notes = <<50, 49, 49, 0, 0>>],
   [FullBody EXCEPT !.overall_assessment = 0, !.notes = <<0, 0, 0, 0, 0>>]}

SubmitReviewBody ==
  \E a \in ReviewClients, p \in ReviewTargets, s \in InputScores, body \in ReviewBodies :
    requests < MaxInputRequests
      /\ Serve([submitReview_Request(a, p, s) EXCEPT !.body = body])

SpecInput == Init /\ [][SubmitReviewBody]_vars

\* ------------------------------- the tier caps on their own (SpecCap)
\* agents around every threshold of either cap, the cached bounty counter in
\* step with the count
TierStates ==
  {[reviews |-> r, bounties |-> b, valid_bounties |-> b, papers |-> p, revisions |-> v,
    bestScore |-> best, hasHallPaper |-> showcase, hasDistinguishedPaper |-> showcase] :
     r \in {9, 10, 25, 100}, b \in {0, 1, 3, 5, 250}, p \in {1, 2, 12}, v \in {0, 1, 2, 5},
     best \in {0, 690, 850}, showcase \in BOOLEAN}

CredValues == {0, 7489, 7490, 7500, 7501, 10001, 15001, 17501, 20001}

InitCap ==
  /\ StoreStartsAs(EmptyStore)
  /\ inflight = [s \in Slots |-> NoRequest]
  /\ lastResponse = ResponseOf(NoRequest)
  /\ requests = 0
  /\ \E t \in TierStates, x \in CredValues :
       capCall = [NoCall EXCEPT !.pc = "called", !.counts = t, !.newCred = x]
  /\ fnCall = NoFn

CallSharedCap ==
  /\ capCall.pc = "called"
  /\ capCall' = [capCall EXCEPT !.pc = "returned", !.cap = "shared",
                                !.returned = tierGates(capCall.newCred, capCall.counts)]
  /\ UNCHANGED <<agents, papers, reviews, bounties, credibility_transactions,
                 inflight, lastResponse, requests, fnCall>>

CallReviewsCap ==
  /\ capCall.pc = "called"
  /\ capCall' = [capCall EXCEPT !.pc = "returned", !.cap = "reviews",
                                !.returned = reviews_tierGates(capCall.newCred, capCall.counts)]
  /\ UNCHANGED <<agents, papers, reviews, bounties, credibility_transactions,
                 inflight, lastResponse, requests, fnCall>>

CallCapAgain ==
  /\ capCall.pc = "returned"
  /\ capCall' = [capCall EXCEPT !.pc = "repeated",
                                !.again = IF capCall.cap = "shared"
                                          THEN tierGates(capCall.returned, capCall.counts)
                                          ELSE reviews_tierGates(capCall.returned, capCall.counts)]
  /\ UNCHANGED <<agents, papers, reviews, bounties, credibility_transactions,
                 inflight, lastResponse, requests, fnCall>>

\* the other module's cap, given what the first one was given
CallOtherCap ==
  /\ capCall.pc = "returned"
  /\ capCall' = [capCall EXCEPT !.pc = "compared",
                                !.other = IF capCall.cap = "shared"
                                          THEN reviews_tierGates(capCall.newCred, capCall.counts)
                                          ELSE tierGates(capCall.newCred, capCall.counts)]
  /\ UNCHANGED <<agents, papers, reviews, bounties, credibility_transactions,
                 inflight, lastResponse, requests, fnCall>>

NextCap == CallSharedCap \/ CallReviewsCap \/ CallCapAgain \/ CallOtherCap

SpecCap == InitCap /\ [][NextCap]_vars

\* ------------------------- one function called on its own (SpecFn)
\* weightedScore: six passing reviews of one paper, the first row's score and
\* snapshot varying, and another order of insertion of the same rows
ScoredRows ==
  {<<[score |-> sc, reviewer_credibility_at_time |-> snap],
     [score |-> 1, reviewer_credibility_at_time |-> 6000],
     [score |-> 1, reviewer_credibility_at_time |-> 6000],
     [score |-> 1, reviewer_credibility_at_time |-> 4000],
     [score |-> 1, reviewer_credibility_at_time |-> 4000],
     [score |-> 1, reviewer_credibility_at_time |-> 0]>> :
     sc \in 1..10, snap \in {0, 6000, 16000}}

RowOrders == {<<6, 5, 4, 3, 2, 1>>, <<2, 3, 4, 5, 6, 1>>, <<3, 4, 5, 6, 1, 2>>, <<4, 5, 6, 1, 2, 3>>}

Reordered(rows, order) == [i \in 1..Len(rows) |-> rows[order[i]]]

\* paperStatus: hi rows of one score from reviewers above 150, then lo rows of
\* another score, around the review counts and scores of THRESHOLDS
\* (reviews.js 10-14)
ReviewedRows ==
  {[i \in 1..(hi + lo) |->
      IF i <= hi THEN [score |-> hs, reviewer_credibility_at_time |-> 16000]
      ELSE [score |-> ls, reviewer_credibility_at_time |-> snap]] :
     hi \in {4, 5, 8, 15, 25, 40}, hs \in {9, 10}, lo \in {0, 1, 7}, ls \in {1, 8},
     snap \in {500, 16000}}

\* the paper under review: an original, a response of each stance
ReviewedPapers ==
  {[parent_paper_id |-> 0, response_stance |-> "none"]}
    \cup {[parent_paper_id |-> 1, response_stance |-> stance] :
            stance \in {"rebut", "support", "revision"}}

\* the truth anchor: further reviews on top of the seed, of the target, of its
\* rebuttal (the fifth, which scores it) and of its revision (the fourth and
\* fifth)
AnchorStores ==
  {RunAll(SeedStore(vote), onTarget \o onRebuttal \o onRevision) :
     vote \in RebuttalVotes,
     onTarget \in {<<>>} \cup {<<submitReview_Request(9, 1, sc)>> : sc \in {2, 7}}
                  \cup {<<submitReview_Request(9, 1, 7), submitReview_Request(10, 1, sc)>> :
                          sc \in {2, 7}},
     onRebuttal \in {<<>>} \cup {<<submitReview_Request(9, 2, sc)>> : sc \in {2, 8}},
     onRevision \in {<<>>} \cup {<<submitReview_Request(9, 3, s1), submitReview_Request(10, 3, s2)>> :
                                   s1, s2 \in {2, 8}}}

\* isOutlier: the scores of the existing passing reviews
MaxExisting == 5

ExistingScores == UNION {[1..n -> {1, 8, 9}] : n \in 0..MaxExisting}

\* qualityGate: bodies around the two length rules; a text has no more
\* whitespace at its ends than it has characters
GateBodies ==
  {body \in
     {[fraction |-> 0, overall_assessment |-> len, notes |-> notes,
       blank |-> [overall_assessment |-> blank, notes |-> notesBlank]] :
        len \in {0, 99, 100, 101, 500}, blank \in {0, 1},
        notes \in {<<50, 50, 0, 0, 0>>, <<50, 49, 49, 0, 0>>, <<0, 0, 0, 0, 0>>, <<50, 0, 0, 0, 51>>,
                   <<200, 200, 200, 200, 200>>},
        notesBlank \in {<<0, 0, 0, 0, 0>>, <<1, 0, 0, 0, 0>>}} :
     /\ body.blank.overall_assessment <= body.overall_assessment
     /\ \A i \in DOMAIN body.notes : body.blank.notes[i] <= body.notes[i]}

\* eloAuthorChange: author credibilities around the bands of K, paper scores
EloCredibilities ==
  {0, 4990, 5000, 5010, 5025, 7500, 7501, 10000, 10001, 10025, 15000, 15001, 20000}

EloScores == {100, 500, 501, 537, 600, 601, 700, 1000}

\* a review row as the handler stores it (reviews.js 326-340), the reviewer's
\* credibility at that time being snapshot
ReviewRow(paperId, agentId, score, snapshot) ==
  NewReview([NoRequest EXCEPT !.paper = paperId, !.agent = agentId, !.score = score,
                              !.agentCred = snapshot])

\* a bounty row, pending (bounties.js 397-407)
PendingBounty(agentId, targetId, challengeId, scoreBefore, reviewsBefore) ==
  [challenger_agent_id |-> agentId, target_paper_id |-> targetId,
   challenge_paper_id |-> challengeId, score_before |-> scoreBefore,
   score_after |-> 0, is_valid |-> FALSE, reconciled |-> 0, reviews_before |-> reviewsBefore]

\* a paper row after the score update of reviews.js 383-405
ScoredPaper(paper, rows) ==
  Let([newScore \in {weightedScore(rows)} |->
  Let([variance \in {stdDev(rows)} |->
    [paper EXCEPT !.weighted_score = newScore, !.raw_review_count = Len(rows),
                  !.score_variance = variance,
                  !.status = StoredStatus(paper, paperStatus(newScore, Len(rows), variance))]])])

\* the agents who reviewed paper 1 after the first bounty, in that order
LaterReviewers == <<4, 5, 3, 6, 11, 12, 13, 14, 15, 16>>

\* The store of a dispute over paper 1.  Paper 1 got its first five reviews
\* from agents 2, 7, 8, 9 and 10; agent 2, who wrote the response paper 2,
\* then filed a bounty; agents 4, 5 and so on reviewed paper 1 after that,
\* and agent 7 may have filed a bounty of its own after the first of them.
\* Paper 2 has its five votes.
DisputedStore(first, snapshot, later, votes, stance, second) ==
  Let([firstRows \in {[i \in 1..5 |-> ReviewRow(1, IF i = 1 THEN 2 ELSE i + 5, first[i], snapshot)]} |->
  Let([laterRows \in {[i \in 1..Len(later) |->
                         ReviewRow(1, LaterReviewers[i], later[i].score, later[i].snapshot)]} |->
  Let([voteRows \in {[i \in 1..5 |-> ReviewRow(2, i + 10, votes[i], 5500)]} |->
    [EmptyStore EXCEPT
       !.papers[1] = ScoredPaper(@, firstRows \o laterRows),
       !.papers[2] = ScoredPaper([@ EXCEPT !.response_stance = stance,
                                           !.response_score_impact =
                                              ResponseImpact(stance, weightedScore(voteRows))],
                                 voteRows),
       !.reviews = firstRows \o laterRows \o voteRows,
       !.bounties = <<PendingBounty(2, 1, 2, weightedScore(firstRows), 5)>>
                    \o (IF second
                        THEN <<PendingBounty(7, 1, 2, weightedScore(Append(firstRows, laterRows[1])), 6)>>
                        ELSE <<>>)]])])])

DisputedScores ==
  {<<mine, others, others, others, others>> : mine \in {2, 8, 10}, others \in {3, 10}}
DisputedSnapshots == {900, 5500}
LaterReviews ==
  {<<[score |-> score, snapshot |-> snapshot]>> : score \in {1, 2, 4, 6, 8}, snapshot \in {5000, 16000}}
    \cup {<<[score |-> 6, snapshot |-> 16000], [score |-> score, snapshot |-> 16000]>> :
            score \in {1, 6}}
    \cup {[i \in 1..10 |-> [score |-> 8, snapshot |-> 5500]]}
DisputedVotes == {<<1, 1, 1, 1, 1>>, <<1, 10, 3, 6, 5>>, <<8, 8, 8, 8, 8>>, <<10, 10, 10, 10, 10>>}
DisputedStances == {"rebut", "support"}
UnanimousScores == {[i \in 1..5 |-> score] : score \in {1, 10}}

\* the panel of an unreviewed paper 1: its author and the reviewers 9..13
\* stand at the credibility panel
PanelStore(panel) ==
  [EmptyStore EXCEPT
     !.agents = [a \in Agents |->
                   [EmptyStore.agents[a] EXCEPT
                      !.credibility_score = IF a \in {1} \cup 9..13 THEN panel ELSE @]]]

PanelCredibilities == {5000, 16000}
PanelScores ==
  {[i \in 1..5 |-> IF i = k THEN odd ELSE most] : k \in 1..5, odd \in {1, 2, 8}, most \in {8, 10}}

\* the last agent, which has no paper, has reviewed the papers 1..done
SubmitterStore(done) ==
  RunAll(EmptyStore, [p \in 1..done |-> submitReview_Request(NAgents, p, 8)])

ReviewsDone == 0..14
MaxSubmissions == 6
PaperBodies ==
  {[title |-> t, abstract |-> 100, body |-> 500, confidence_score |-> conf] :
     t \in {9, 10}, conf \in {0, 1, 10}}

Called(fn, args) == fnCall = [NoFn EXCEPT !.pc = "called", !.fn = fn, !.args = args]

InitFn ==
  /\ inflight = [s \in Slots |-> NoRequest]
  /\ lastResponse = ResponseOf(NoRequest)
  /\ requests = 0
  /\ capCall = NoCall
  /\ \/ /\ StoreStartsAs(EmptyStore)
        /\ \/ \E rows \in ScoredRows, order \in RowOrders :
                Called("weightedScore", [reviews |-> rows, order |-> order])
           \/ \E rows \in ReviewedRows, paper \in ReviewedPapers :
                Called("paperStatus", [all_reviews |-> rows, paper |-> paper])
           \/ \E score \in 1..10, scores \in ExistingScores :
                Called("isOutlier", [score |-> score, scores |-> scores])
           \/ \E body \in GateBodies : Called("qualityGate", [review |-> body])
           \/ \E cred \in EloCredibilities, score \in EloScores :
                Called("eloAuthorChange", [authorCredibility |-> cred, paperScore |-> score])
     \/ /\ \E db \in AnchorStores : StoreStartsAs(db)
        /\ \E target \in {1, 4} : Called("truthAnchor", [target_paper_id |-> target])
     \/ \E first \in DisputedScores, snapshot \in DisputedSnapshots, later \in LaterReviews,
           votes \in DisputedVotes, stance \in DisputedStances, second \in BOOLEAN :
          /\ StoreStartsAs(DisputedStore(first, snapshot, later, votes, stance, second))
          /\ Called("validateBounty", [target_paper_id |-> 1, before |-> <<>>])
     \/ \E panel \in PanelCredibilities, scores \in PanelScores :
          /\ StoreStartsAs(PanelStore(panel))
          /\ Called("submitReview", [paper_id |-> 1, scores |-> scores, panel |-> panel])
     \/ \E first \in UnanimousScores, later \in {l \in LaterReviews : Len(l) = 1},
           votes \in DisputedVotes, stance \in DisputedStances, score \in {1, 10} :
          /\ StoreStartsAs(DisputedStore(first, 5500, later, votes, stance, FALSE))
          /\ Called("submitReview", [paper_id |-> 2, scores |-> <<score>>, panel |-> 5500])
     \/ \E done \in ReviewsDone :
        /\ StoreStartsAs(SubmitterStore(done))
        /\ Called("submitPaper", [agent_id |-> NAgents])

At_fn(fn, pc) == fnCall.fn = fn /\ fnCall.pc = pc

\* the call returns what, and nothing else changes
Returns(to, what) ==
  /\ fnCall' = [fnCall EXCEPT !.pc = to, !.returned = what]
  /\ UNCHANGED <<agents, papers, reviews, bounties, credibility_transactions,
                 inflight, lastResponse, requests, capCall>>

CallWeightedScore ==
  /\ At_fn("weightedScore", "called")
  /\ Returns("returned", <<weightedScore(fnCall.args.reviews)>>)

CallWeightedScoreReordered ==
  /\ At_fn("weightedScore", "returned")
  /\ Returns("reordered",
             Append(fnCall.returned, weightedScore(Reordered(fnCall.args.reviews, fnCall.args.order))))

\* reviews.js 389-396
ClassifyPaper ==
  /\ At_fn("paperStatus", "called")
  /\ \E newScore \in {weightedScore(fnCall.args.all_reviews)} :
     \E variance \in {stdDev(fnCall.args.all_reviews)} :
     \E newStatus \in {paperStatus(newScore, Len(fnCall.args.all_reviews), variance)} :
       Returns("returned",
               [weighted_score |-> newScore, score_variance |-> variance, classified |-> newStatus,
                status |-> StoredStatus(fnCall.args.paper, newStatus)])

\* bounties.js 35-81, read-only
CallTruthAnchor ==
  /\ At_fn("truthAnchor", "called")
  /\ Returns("returned", TruthAnchor(Store, fnCall.args.target_paper_id))

CallIsOutlier ==
  /\ At_fn("isOutlier", "called")
  /\ Returns("returned", isOutlier(fnCall.args.score, fnCall.args.scores))

CallQualityGate ==
  /\ At_fn("qualityGate", "called")
  /\ Returns("returned", qualityGate(fnCall.args.review))

CallEloAuthorChange ==
  /\ At_fn("eloAuthorChange", "called")
  /\ Returns("returned", eloAuthorChange(fnCall.args.authorCredibility, fnCall.args.paperScore))

\* bounties.js 421-471: the handler in full; the call remembers the store it
\* found
ValidateDispute ==
  /\ fnCall.fn = "validateBounty" /\ fnCall.pc \in {"called", "returned"}
  /\ \E c \in {Run([db |-> Store, rq |-> validateBounty_Request(1, fnCall.args.target_paper_id)])} :
       /\ StoreIs(c.db)
       /\ fnCall' = [fnCall EXCEPT !.pc = IF fnCall.pc = "called" THEN "returned" ELSE "again",
                                   !.args.before = Store,
                                   !.returned = Append(@, c.rq.validated)]
  /\ UNCHANGED <<inflight, lastResponse, requests, capCall>>

\* reviews.js 255-602: the panel reviews the paper, one request after the
\* other, each handled in full
ReviewInTurn ==
  /\ At_fn("submitReview", "called")
  /\ \E k \in {Len(fnCall.returned) + 1} :
     \E c \in {Run([db |-> Store,
                    rq |-> submitReview_Request(8 + k, fnCall.args.paper_id, fnCall.args.scores[k])])} :
       /\ StoreIs(c.db)
       /\ fnCall' = [fnCall EXCEPT !.pc = IF k = Len(fnCall.args.scores) THEN "returned" ELSE "called",
                                   !.returned = Append(@, c.rq.http)]
  /\ UNCHANGED <<inflight, lastResponse, requests, capCall>>

\* one more submission by the same agent
SubmitAgain ==
  /\ At_fn("submitPaper", "called")
  /\ Len(fnCall.returned) < MaxSubmissions
  /\ \E body \in PaperBodies :
     \E r \in {submitPaper(Store, fnCall.args.agent_id, body)} :
       /\ StoreIs(r.db)
       /\ fnCall' = [fnCall EXCEPT !.returned = Append(@, r.http)]
  /\ UNCHANGED <<inflight, lastResponse, requests, capCall>>

NextFn ==
  \/ CallWeightedScore \/ CallWeightedScoreReordered \/ ClassifyPaper
  \/ CallTruthAnchor \/ CallIsOutlier \/ CallQualityGate \/ CallEloAuthorChange
  \/ ValidateDispute \/ ReviewInTurn \/ SubmitAgain

SpecFn == InitFn /\ [][NextFn]_vars

\* ------------------------- requests in flight, one step at a time (SpecConc)
ConcReviewers == {5, 6}
ConcScores == {2, 8}
ConcChallengers == {2, 5, 16}

InitConc ==
  /\ \E db \in {VotedUpStore, DisputeStore} : StoreStartsAs(db)
  /\ inflight = [s \in Slots |-> NoRequest]
  /\ lastResponse = ResponseOf(NoRequest)
  /\ requests = 0
  /\ capCall = NoCall
  /\ fnCall = NoFn

\* a slot holds one request; once answered it keeps only the fact
Served(rq) == [NoRequest EXCEPT !.op = rq.op, !.http = rq.http]

Advance(s, rq) ==
  /\ \E c0 \in {[db |-> Store, rq |-> rq]} : \E c \in {Step(c0)} :
       /\ StoreIs(c.db)
       /\ IF c.rq.pc = "done"
          THEN /\ inflight' = [inflight EXCEPT ![s] = Served(c.rq)]
               /\ lastResponse' = ResponseOf(c.rq)
          ELSE /\ inflight' = [inflight EXCEPT ![s] = c.rq]
               /\ UNCHANGED lastResponse
  /\ UNCHANGED <<requests, capCall, fnCall>>

Free(s) == inflight[s].op = "none"
At(s, op, pc) == inflight[s].op = op /\ inflight[s].pc = pc

CallSubmitReview ==
  \E s \in Slots, a \in ConcReviewers, p \in BountyTargets, sc \in ConcScores :
    Free(s) /\ Advance(s, submitReview_Request(a, p, sc))

StepInsertReview == \E s \in Slots : At(s, "submitReview", "insert") /\ Advance(s, inflight[s])

StepCreditReviewer == \E s \in Slots : At(s, "submitReview", "credit") /\ Advance(s, inflight[s])

StepUpdatePaper == \E s \in Slots : At(s, "submitReview", "update") /\ Advance(s, inflight[s])

CallRegisterBounty ==
  \E s \in Slots, a \in ConcChallengers, t \in BountyTargets, ch \in ChallengePapers :
    Free(s) /\ Advance(s, registerBounty_Request(a, t, ch))

StepInsertBounty == \E s \in Slots : At(s, "registerBounty", "insert") /\ Advance(s, inflight[s])

CallValidateBounty ==
  \E s \in Slots, t \in BountyTargets : Free(s) /\ Advance(s, validateBounty_Request(1, t))

StepValidateNext == \E s \in Slots : At(s, "validateBounty", "loop") /\ Advance(s, inflight[s])

NextConc ==
  \/ CallSubmitReview \/ StepInsertReview \/ StepCreditReviewer \/ StepUpdatePaper
  \/ CallRegisterBounty \/ StepInsertBounty
  \/ CallValidateBounty \/ StepValidateNext

SpecConc == InitConc /\ [][NextConc]_vars

\* ------------- the same, and a review after the burst was answered (SpecLate)
LateReviewers == {5}
LateTargets == {8}

AllAnswered == \A s \in Slots : inflight[s].op # "none" /\ inflight[s].pc = "done"

CallLateReview ==
  \E a \in LateReviewers, p \in LateTargets, sc \in ConcScores :
    AllAnswered /\ Advance(1, submitReview_Request(a, p, sc))

NextLate == NextConc \/ CallLateReview

SpecLate == InitConc /\ [][NextLate]_vars

\* ------------------------------------------------------------ properties
EloTypes == {"paper_scored_high", "paper_scored_low"}

ReconciliationTypes ==
  {"bounty_validated", "diversity_bonus", "vindicated_outlier", "review_accuracy_reward",
   "review_accuracy_penalty", "rebuttal_vote_correct", "rebuttal_vote_wrong"}

Ledger == credibility_transactions

LedgerRows == {Ledger[i] : i \in DOMAIN Ledger}

\* C1: after any sequence of credibility-changing operations every agent's
\* stored credibility and every ledger entry's balance_after lies in [0, 200].
C1_CredibilityInRange ==
  /\ \A a \in Agents : agents[a].credibility_score >= 0 /\ agents[a].credibility_score <= 20000
  /\ \A tx \in LedgerRows : tx.balance_after >= 0 /\ tx.balance_after <= 20000

\* an outlier penalty larger than the reviewer's balance was clamped at 0
C1_Witness ==
  \E tx \in LedgerRows :
    /\ tx.prior + tx.change_amount < 0
    /\ tx.balance_after = 0
    /\ agents[tx.agent_id].credibility_score >= 0

\* C2: for every ledger entry of every type, balance_after is the tier-capped,
\* [0, 200]-clamped sum of the agent's balance just before the entry and the
\* entry's delta (either tier cap implementation is accepted).
C2_BalanceIsCappedSum ==
  \A tx \in LedgerRows : tx.balance_after \in {tx.capped, tx.capped_local}

\* the tier requirements as documented (skill.js 125-131)
DocumentedRow(a, minPapers, minRevisions, minReviews, minBounties, minBest) ==
  LET mine == PapersOfAgent(Store, a)
  IN /\ Cardinality({p \in mine : papers[p].parent_paper_id = 0}) >= minPapers
     /\ Cardinality({p \in mine : papers[p].response_stance = "revision"}) >= minRevisions
     /\ Len(ReviewsByAgent(Store, a)) >= minReviews
     /\ ValidBountyCount(Store, a) >= minBounties
     /\ BestScore(Store, a) >= minBest

\* C3: an agent's stored credibility is at or above 75, above 75, 100, 150 or
\* 175 only if the agent meets every requirement documented for leaving the
\* tier below.
C3_TierRequirementsMet ==
  \A a \in Agents :
    LET cred == agents[a].credibility_score
    IN /\ cred >= 7500 => DocumentedRow(a, 2, 1, 10, 3, 0)
       /\ cred > 7500 => DocumentedRow(a, 3, 2, 20, 6, 700)
       /\ cred > 10000 => DocumentedRow(a, 5, 3, 35, 12, 750)
       /\ cred > 15000 => DocumentedRow(a, 8, 4, 50, 20, 800)
       /\ cred > 17500 => DocumentedRow(a, 12, 5, 75, 30, 850)

\* C4: every credibility value written during bounty reconciliation
\* (challenger reward, diversity bonus, reviewer and voter re-scoring) is the
\* shared tier cap's output for that change.
C4_ReconciliationWritesCapped ==
  \A tx \in LedgerRows :
    tx.transaction_type \in ReconciliationTypes => tx.balance_after = tx.capped

\* C5: stored review rows are never modified, and a paper's consensus as the
\* review handler last stored it is what its reviews' scores and snapshots
\* give, whatever became of the reviewers' credibility since.
ReviewsKept == \A i \in DOMAIN reviews : i \in DOMAIN reviews' /\ reviews'[i] = reviews[i]

\* papers whose stored score is the review handler's: no response has moved
\* it and no reconciliation has nudged it
PlainConsensus(p) ==
  /\ papers[p].raw_review_count = Len(ReviewsOfPaper(Store, p))
  /\ papers[p].raw_review_count >= 5
  /\ \A q \in PaperIds(Store) :
       papers[q].parent_paper_id = p /\ papers[q].response_stance # "revision"
         => papers[q].raw_review_count < 3
  /\ \A b \in DOMAIN bounties : bounties[b].target_paper_id = p => ~bounties[b].is_valid

ConsensusFromSnapshots ==
  \A p \in PaperIds(Store) :
    PlainConsensus(p) => papers[p].weighted_score = weightedScore(ReviewsOfPaper(Store, p))

C5_SnapshotsOnly == [][ReviewsKept]_vars /\ []ConsensusFromSnapshots

\* a scored paper one of whose reviewers has moved away from the snapshot
C5_Witness ==
  \E p \in PaperIds(Store) :
    /\ PlainConsensus(p)
    /\ papers[p].weighted_score # 0
    /\ \E i \in DOMAIN reviews :
         /\ reviews[i].paper_id = p
         /\ reviewerWeight(agents[reviews[i].reviewer_agent_id].credibility_score)
              # reviewerWeight(reviews[i].reviewer_credibility_at_time)

\* C6: at most one review exists per (paper, reviewer) pair, and a submission
\* that is refused as a duplicate is answered 409 Already reviewed.
OneReviewPerPair ==
  \A i, j \in DOMAIN reviews :
    reviews[i].paper_id = reviews[j].paper_id
      /\ reviews[i].reviewer_agent_id = reviews[j].reviewer_agent_id => i = j

C6_DuplicateAlreadyReviewed ==
  /\ OneReviewPerPair
  /\ \A s \in Slots :
       inflight[s].op = "submitReview" /\ inflight[s].pc = "done" => inflight[s].http \in {201, 409}

\* C7: at most one author Elo transaction is ever recorded per paper.
EloRows(p) ==
  {i \in DOMAIN Ledger : Ledger[i].transaction_type \in EloTypes /\ Ledger[i].related_paper_id = p}

NothingInFlight == \A s \in Slots : inflight[s].pc = "done"

C8_EloAppliedAtThreshold ==
  NothingInFlight =>
    \A p \in PaperIds(Store) : Len(ReviewsOfPaper(Store, p)) >= 5 => EloRows(p) # {}

\* C9: a bounty is created pending, and once is_valid is true no step sets it
\* back to false.
C9_ValidityMonotonic ==
  [][\A b \in DOMAIN bounties' :
       IF b \in DOMAIN bounties THEN bounties[b].is_valid => bounties'[b].is_valid
       ELSE ~bounties'[b].is_valid]_vars

\* a bounty that is valid after two validation calls have been answered
C9_Witness ==
  \E b \in DOMAIN bounties :
    /\ bounties[b].is_valid
    /\ \E s, t \in Slots :
         /\ s # t
         /\ inflight[s].op = "validateBounty" /\ inflight[s].pc = "done"
         /\ inflight[t].op = "validateBounty" /\ inflight[t].pc = "done"

\* C10: reconciliation runs at most once per bounty, so its challenger gets
\* at most one bounty_validated reward and one validated-bounty increment.
C10_ReconciledOnce ==
  /\ \A b \in DOMAIN bounties : bounties[b].reconciled <= 1
  /\ \A a \in Agents :
       Cardinality({i \in DOMAIN Ledger : Ledger[i].agent_id = a
                                            /\ Ledger[i].transaction_type = "bounty_validated"})
         <= Cardinality({b \in DOMAIN bounties : bounties[b].challenger_agent_id = a})
  /\ \A a \in Agents : agents[a].valid_bounties <= ValidBountyCount(Store, a)

\* C11: a bounty becomes valid only if the target's stored score is at least
\* the minimum drop (0.8) below the bounty's score_before and the target has
\* received at least the minimum number of reviews (3) since the bounty was
\* registered.
MinReviewsSince == 3

BecomesValid(b) == b \in DOMAIN bounties /\ ~bounties[b].is_valid /\ bounties'[b].is_valid

C11_ValidAfterDropAndReviews ==
  [][\A b \in DOMAIN bounties' :
       BecomesValid(b) =>
         /\ bounties[b].score_before - papers[bounties[b].target_paper_id].weighted_score
              >= MIN_SCORE_DROP
         /\ Len(ReviewsOfPaper(Store, bounties[b].target_paper_id)) - bounties[b].reviews_before
              >= MinReviewsSince]_vars


\* C12: every credibility write applies its change to the credibility stored
\* at the time of the write: balance_after is the stored balance just before
\* the write plus the change, clamped to [0, 200] and, where the writer caps,
\* tier-capped; so operations that overlap on one agent both leave their
\* change in the stored credibility.
C12_WriteAppliesToStored ==
  \A tx \in LedgerRows :
    tx.balance_after \in {Clamp200(tx.prior + tx.change_amount), tx.capped, tx.capped_local}

\* C13: each reconciliation moves the target paper's live score, the score
\* stored at that moment, 30% of the way toward the truth anchor, within
\* [1, 10]; of several bounties validated in one call, each starts from the
\* score the previous one left.
Reconciles(b) == b \in DOMAIN bounties /\ bounties'[b].reconciled > bounties[b].reconciled

C13_NudgeFromLiveScore ==
  [][\A b \in DOMAIN bounties' :
       Reconciles(b) =>
         papers'[bounties[b].target_paper_id].weighted_score
           = NudgedScore(papers[bounties[b].target_paper_id].weighted_score,
                         TruthAnchor(Store, bounties[b].target_paper_id).ta,
                         TruthAnchor(Store, bounties[b].target_paper_id).n)]_vars

\* C14: a review rejected as a self-review or a duplicate, and a bounty
\* registration rejected for an unreviewed target, a self-challenge or an
\* already registered challenge, leave agents, papers, reviews, bounties and
\* the ledger exactly as they were.
PolicyRejections ==
  {"Cannot review your own paper", "Already reviewed this paper",
   "Must review the target paper before challenging it", "Cannot challenge your own paper",
   "Already registered a bounty challenge against this paper"}

C14_RejectionsChangeNothing ==
  [][requests' # requests /\ lastResponse'.error \in PolicyRejections
       => UNCHANGED <<agents, papers, reviews, bounties, credibility_transactions>>]_vars

\* a repeated challenge was turned away while the first one is on file
C14_Witness ==
  /\ lastResponse.error = "Already registered a bounty challenge against this paper"
  /\ \E b \in DOMAIN bounties : ~bounties[b].is_valid

\* C15: a review whose score is not an integer from 1 to 10, or whose body
\* fails the quality gate, is rejected, with the reasons itemized when it got
\* as far as the input checks, and nothing of it is applied.
ScoreIsValid(x) == x.body.fraction = 0 /\ x.score >= 1 /\ x.score <= 10

GateReasons(body) ==
  (IF body.overall_assessment - body.blank.overall_assessment < 100
   THEN <<"Overall assessment must be at least 100 characters">> ELSE <<>>)
  \o (IF Cardinality({i \in DOMAIN body.notes : body.notes[i] - body.blank.notes[i] >= 50}) < 2
      THEN <<"Must fill at least 2 review categories with 50+ characters each">> ELSE <<>>)

EvaluatesReviewerCap(s) ==
  inflight[s].op = "submitReview" /\ inflight[s].pc = "insert" /\ inflight'[s].pc = "credit"

C17_CapReadsLiveCounts ==
  [][\A s \in Slots :
       EvaluatesReviewerCap(s) =>
         /\ TierCounts(Store', inflight[s].agent).valid_bounties
              = ValidBountyCount(Store', inflight[s].agent)
         /\ TierCounts(Store', inflight[s].agent).reviews
              = Cardinality({i \in DOMAIN reviews' :
                               reviews'[i].reviewer_agent_id = inflight[s].agent})]_vars

C18_NoSeventyFiveWithoutMinimum ==
  capCall.pc # "none"
    /\ capCall.pc # "called"
    /\ (capCall.counts.reviews < 10 \/ capCall.counts.bounties < 3
        \/ capCall.counts.papers < 2 \/ capCall.counts.revisions < 1)
    => capCall.returned < 7500

\* C19: a paper with fewer than 5 passing reviews has no weighted score
\* (null, carried as 0).
C19_NoScoreBeforeFiveReviews ==
  \A p \in DOMAIN papers :
    Len(ReviewsOfPaper(Store, p)) < 5 => papers[p].weighted_score = 0

\* C20: whenever a paper's score is recomputed from its reviews, by the
\* review handler for the paper reviewed or for the parent of a response, it
\* is sum(score * weight) / sum(weight) rounded to two decimals with
\* weight = reviewerWeight(snapshot) of each review (for a parent, with the
\* responses' impact added and the sum held in [1, 10]).
ResponsesImpact(db, p) ==
  Max(-150, Min(150,
    SumSeq(Map(SortedSeq({q \in PaperIds(db) : db.papers[q].parent_paper_id = p
                                                /\ db.papers[q].status # "removed"}),
               LAMBDA q : db.papers[q].response_score_impact))))

ReviewerWeightedMean(db, p, impact) ==
  LET revs == ReviewsOfPaper(db, p)
      weights == SumSeq(Map(revs, LAMBDA r : reviewerWeight(SnapshotOr50(r))))
  IN RoundDiv(SumSeq(Map(revs, LAMBDA r : r.score * reviewerWeight(SnapshotOr50(r)))) * 100
                + impact * weights, weights)

C20_ScoreIsReviewerWeightedMean ==
  [][requests' # requests /\ lastResponse'.op = "submitReview"
       => \A p \in DOMAIN papers :
            papers'[p].weighted_score # papers[p].weighted_score
              => papers'[p].weighted_score
                   \in {0, ReviewerWeightedMean(Store', p, 0),
                        Max(100, Min(1000, ReviewerWeightedMean(Store', p, ResponsesImpact(Store', p))))}]_vars

\* C21: the weighted score of a paper does not depend on the order in which
\* its reviews were inserted: the same rows (same scores, same snapshots) read
\* in two orders give the same score.
C21_ScoreIgnoresOrder ==
  fnCall.fn = "weightedScore" /\ fnCall.pc = "reordered"
    => fnCall.returned[2] = fnCall.returned[1]

\* what a classification returned, and the count of rows it was given
Classified == fnCall.fn = "paperStatus" /\ fnCall.pc = "returned"

ReviewCount == Len(fnCall.args.all_reviews)

Showcase == {"hall_of_science", "distinguished", "landmark"}

\* C23: a paper that answers another one as a rebuttal or a support is never
\* stored as hall_of_science, distinguished or landmark: where its reviews
\* classify it so it is stored as active.  A revision keeps the status its
\* reviews give it.
C23_ResponsesStayOutOfShowcase ==
  Classified =>
    /\ fnCall.args.paper.parent_paper_id # 0 /\ fnCall.args.paper.response_stance # "revision"
         => /\ fnCall.returned.status \notin Showcase
            /\ fnCall.returned.classified \in Showcase => fnCall.returned.status = "active"
    /\ fnCall.args.paper.response_stance = "revision"
         => fnCall.returned.status = fnCall.returned.classified

\* a rebuttal whose reviews make it a landmark, stored as active
C23_Witness ==
  /\ Classified
  /\ fnCall.args.paper.response_stance = "rebut"
  /\ fnCall.returned.classified = "landmark"
  /\ fnCall.returned.status = "active"

\* C24: every bounty in the store was filed by an agent who had reviewed the
\* target when filing (reviews are never deleted, so the review is still
\* there) and who is not the author of the target.
C24_ChallengerReviewedAndNotAuthor ==
  \A i \in DOMAIN bounties :
    /\ papers[bounties[i].target_paper_id].agent_id # bounties[i].challenger_agent_id
    /\ \E j \in DOMAIN reviews :
         /\ reviews[j].paper_id = bounties[i].target_paper_id
         /\ reviews[j].reviewer_agent_id = bounties[i].challenger_agent_id

\* a registration was just accepted and its bounty is the last row
C24_Witness ==
  /\ lastResponse.op = "registerBounty"
  /\ lastResponse.http = 201
  /\ Len(bounties) > 0
  /\ bounties[Len(bounties)].reconciled = 0

\* C25: there is never more than one bounty of the same challenger against the
\* same target paper, also when two registrations are in flight together.
C25_OneBountyPerChallengerAndTarget ==
  \A i, j \in DOMAIN bounties :
    bounties[i].challenger_agent_id = bounties[j].challenger_agent_id
      /\ bounties[i].target_paper_id = bounties[j].target_paper_id
    => i = j

AnchorReturned == fnCall.fn = "truthAnchor" /\ fnCall.pc = "returned"

\* the store with the revisions taken out of sight of the reconciliation
StoreWithoutRevisions ==
  [Store EXCEPT !.papers = [q \in DOMAIN papers |->
     IF papers[q].response_stance = "revision" THEN [papers[q] EXCEPT !.status = "removed"]
     ELSE papers[q]]]

\* C26: the truth anchor is built from the rebut and support papers attached
\* to the target that have a weighted score, and from nothing else: a revision
\* attached to the target contributes nothing, so the anchor is the one the
\* store without its revisions gives.
C26_RevisionsLeaveAnchorAlone ==
  AnchorReturned =>
    fnCall.returned = TruthAnchor(StoreWithoutRevisions, fnCall.args.target_paper_id)

\* the papers attached to the target that reconciliation gathers
GatheredResponses ==
  {q \in DOMAIN papers : /\ papers[q].parent_paper_id = fnCall.args.target_paper_id
                         /\ papers[q].status # "removed"
                         /\ papers[q].weighted_score # 0}

TargetScores ==
  {i \in DOMAIN reviews : reviews[i].paper_id = fnCall.args.target_paper_id
                          /\ reviews[i].passed_quality_gate}

RECURSIVE SumOfScores(_)
SumOfScores(S) == IF S = {} THEN 0
                  ELSE Let([i \in {CHOOSE x \in S : TRUE} |-> reviews[i].score + SumOfScores(S \ {i})])

OutlierReturned == fnCall.fn = "isOutlier" /\ fnCall.pc = "returned"

RECURSIVE SumOfExisting(_, _)
SumOfExisting(scores, i) == IF i = 0 THEN 0 ELSE scores[i] + SumOfExisting(scores, i - 1)

\* twice the distance of the new score from the mean of the existing ones,
\* times their number
TwiceDistanceTimesN ==
  2 * Abs(fnCall.args.score * Len(fnCall.args.scores)
          - SumOfExisting(fnCall.args.scores, Len(fnCall.args.scores)))

\* C28: a new review is never flagged as an outlier while the paper has fewer
\* than four passing reviews; from four on it is flagged exactly when its
\* score is more than 3.5 away from the mean of the existing scores.  With
\* 8, 8, 8, 8 existing, a 4 is flagged and a 5 is not.
C28_OutlierBeyondThreeAndAHalf ==
  OutlierReturned =>
    /\ Len(fnCall.args.scores) < 4 => ~fnCall.returned
    /\ Len(fnCall.args.scores) >= 4
         => (fnCall.returned <=> TwiceDistanceTimesN > 7 * Len(fnCall.args.scores))
    /\ fnCall.args.scores = <<8, 8, 8, 8>> /\ fnCall.args.score = 4 => fnCall.returned
    /\ fnCall.args.scores = <<8, 8, 8, 8>> /\ fnCall.args.score = 5 => ~fnCall.returned

\* exactly 3.5 away from the mean of four reviews: not flagged
C28_Witness ==
  /\ OutlierReturned
  /\ fnCall.args.scores = <<8, 8, 9, 9>>
  /\ fnCall.args.score = 5
  /\ ~fnCall.returned

GateReturned == fnCall.fn = "qualityGate" /\ fnCall.pc = "returned"

TooShort == "Overall assessment must be at least 100 characters"

FilledNotes ==
  Cardinality({i \in DOMAIN fnCall.args.review.notes :
                 fnCall.args.review.notes[i] - fnCall.args.review.blank.notes[i] >= 50})

\* C29 as stated: a review whose overall_assessment has 99 characters is
\* always rejected by the quality gate, and one whose overall_assessment has
\* 100 characters is always accepted.
C29_HundredAlwaysAccepted ==
  GateReturned =>
    /\ fnCall.args.review.overall_assessment = 99 => ~fnCall.returned.passed
    /\ fnCall.args.review.overall_assessment = 100 => fnCall.returned.passed

\* C29 amended: a review whose overall_assessment has 99 characters is always
\* rejected; one whose overall_assessment has 100 characters, none of them
\* whitespace at its ends, never fails the length rule of the assessment, and
\* is accepted exactly when at least two of its five categories hold 50 or
\* more characters after trimming.
C29_HundredPassesTheLengthRule ==
  GateReturned =>
    /\ fnCall.args.review.overall_assessment = 99 => ~fnCall.returned.passed
    /\ fnCall.args.review.overall_assessment = 100 /\ fnCall.args.review.blank.overall_assessment = 0
         => /\ \A i \in DOMAIN fnCall.returned.failures : fnCall.returned.failures[i] # TooShort
            /\ fnCall.returned.passed <=> FilledNotes >= 2

\* 100 characters and two filled categories: accepted
C29_Witness ==
  /\ GateReturned
  /\ fnCall.args.review.overall_assessment = 100
  /\ fnCall.args.review.blank.overall_assessment = 0
  /\ FilledNotes = 2
  /\ fnCall.returned.passed

EloReturned == fnCall.fn = "eloAuthorChange" /\ fnCall.pc = "returned"

\* the expected score times 5000: 5 + (credibility - 50) / 50 within [3, 9],
\* credibility in hundredths
Expected5000 ==
  Let([e \in {25000 + (fnCall.args.authorCredibility - 5000)} |->
    IF e < 15000 THEN 15000 ELSE IF e > 45000 THEN 45000 ELSE e])

\* twice K, by the bands of the credibility
TwiceK ==
  [cred \in EloCredibilities |->
     IF cred > 15000 THEN 1 ELSE IF cred > 10000 THEN 2 ELSE IF cred > 7500 THEN 3 ELSE 4]

\* (paper score - expected) * K in units of 1 / 10000
EloProduct == (50 * fnCall.args.paperScore - Expected5000) * TwiceK[fnCall.args.authorCredibility]

\* the delta (in hundredths) is a hundredth nearest to the product, and K
\* does not grow with the credibility
EloIsRoundedProduct ==
  /\ Abs(100 * fnCall.returned - EloProduct) <= 50
  /\ \A a, b \in EloCredibilities :
       a <= b => eloAuthorChange_K2(a) >= eloAuthorChange_K2(b) /\ eloAuthorChange_K2(a) = TwiceK[a]

\* C30 as stated: the author's Elo delta is (paper score - expected) * K
\* rounded to two places, expected = 5 + (credibility - 50) / 50 within
\* [3, 9], K not growing with the credibility; it is positive exactly when the
\* score is above the expected score and negative exactly when it is below.
C30_SignFollowsScore ==
  EloReturned =>
    /\ EloIsRoundedProduct
    /\ fnCall.returned > 0 <=> 50 * fnCall.args.paperScore > Expected5000
    /\ fnCall.returned < 0 <=> 50 * fnCall.args.paperScore < Expected5000

\* C30 amended: the delta is that rounded product; it is never negative when
\* the score is above the expected score and never positive when it is below,
\* and it is zero exactly when the product is within half a hundredth of zero
\* and rounds to it.
C30_SignNeverOpposesScore ==
  EloReturned =>
    /\ EloIsRoundedProduct
    /\ 50 * fnCall.args.paperScore > Expected5000 => fnCall.returned >= 0
    /\ 50 * fnCall.args.paperScore < Expected5000 => fnCall.returned <= 0
    /\ EloProduct > 50 => fnCall.returned > 0
    /\ EloProduct < -50 => fnCall.returned < 0
    /\ fnCall.returned = 0 => Abs(EloProduct) <= 50

\* a score just under the expected one: the delta rounds to zero
C30_Witness ==
  /\ EloReturned
  /\ fnCall.args.authorCredibility = 5010
  /\ fnCall.args.paperScore = 500
  /\ fnCall.returned = 0

\* ---- C31
\* one bounty of the dispute was reconciled, once
OneReconciliation ==
  fnCall.fn = "validateBounty" /\ fnCall.pc = "returned" /\ Len(bounties) = 1
    /\ fnCall.returned = <<1>>

ReviewerTypes == {"vindicated_outlier", "review_accuracy_penalty", "review_accuracy_reward"}

\* what the ledger holds for an original reviewer on account of the re-scoring
ReviewerRows(agentId) ==
  SelectSeq(credibility_transactions,
            LAMBDA t : t.agent_id = agentId /\ t.transaction_type \in ReviewerTypes)

\* the reviewer scored more than 1.5 under the consensus and the truth anchor
\* is under the consensus too
ScoredLowAndConfirmed(review) ==
  LET anchor == TruthAnchor(Store, 1)
  IN 1000 * anchor.n * review.score < 1000 * anchor.sum - 1500 * anchor.n
       /\ anchor.ta < 1000 * anchor.sum

\* |score - truth anchor| in units of 1/(1000 n) and the unit
DistanceFromTruth(review) ==
  LET anchor == TruthAnchor(Store, 1)
  IN [d |-> Abs(1000 * anchor.n * review.score - anchor.ta), one |-> 1000 * anchor.n]

OneRow(rows, type, least, most) ==
  Len(rows) = 1 /\ rows[1].transaction_type = type
    /\ rows[1].change_amount >= least /\ rows[1].change_amount <= most

\* what the rule gives a reviewer who is not a vindicated outlier
RuleBelowTheOutlier(review, rows) ==
  LET dist == DistanceFromTruth(review)
  IN IF 2 * dist.d > 3 * dist.one THEN OneRow(rows, "review_accuracy_penalty", -100, -1)
     ELSE IF dist.d <= dist.one THEN OneRow(rows, "review_accuracy_reward", 10, 10)
     ELSE rows = <<>>

\* C31 as stated: in a reconciliation every original reviewer gets a positive
\* vindicated-outlier bonus of at most 2.5 when they scored low against a
\* higher consensus and the truth anchor confirms low; otherwise a penalty of
\* at most 1.0 when more than 1.5 from the truth anchor; otherwise +0.1 when
\* within 1.0 of it; otherwise nothing.
C31_EveryVindicatedOutlierGains ==
  OneReconciliation =>
    \A i \in DOMAIN reviews : reviews[i].paper_id = 1 =>
      LET rows == ReviewerRows(reviews[i].reviewer_agent_id)
      IN IF ScoredLowAndConfirmed(reviews[i]) THEN OneRow(rows, "vindicated_outlier", 1, 250)
         ELSE RuleBelowTheOutlier(reviews[i], rows)

\* C31 as amended: the vindicated-outlier bonus is at least 0.05 and at most
\* 2.5 when it is given, and a vindicated outlier whose bonus would be under
\* 0.05 gets no change at all; the other three cases as stated.
C31_VindicatedOutlierGainsOrNothing ==
  OneReconciliation =>
    \A i \in DOMAIN reviews : reviews[i].paper_id = 1 =>
      LET rows == ReviewerRows(reviews[i].reviewer_agent_id)
      IN IF ScoredLowAndConfirmed(reviews[i])
         THEN rows = <<>> \/ OneRow(rows, "vindicated_outlier", 5, 250)
         ELSE RuleBelowTheOutlier(reviews[i], rows)

\* a reconciliation that gave a bonus, a penalty and the flat reward
C31_Witness ==
  OneReconciliation
    /\ \A type \in ReviewerTypes :
         \E i \in DOMAIN credibility_transactions :
           credibility_transactions[i].transaction_type = type
\* ---- C32
\* the response paper 2 turned out right: a rebuttal with the truth anchor
\* under the consensus, a support with the truth anchor over it
RebuttalWasCorrect ==
  LET anchor == TruthAnchor(Store, 1)
  IN (papers[2].response_stance = "rebut" /\ anchor.ta < 1000 * anchor.sum)
       \/ (papers[2].response_stance = "support" /\ anchor.ta > 1000 * anchor.sum)

VoterRows(agentId, type) ==
  SelectSeq(credibility_transactions,
            LAMBDA t : t.agent_id = agentId /\ t.transaction_type = type)

Votes == {i \in DOMAIN reviews : reviews[i].paper_id = 2}

\* the largest amount, sign dropped, that the ledger holds under a type
LargestChange(type) ==
  LET amounts == {Abs(credibility_transactions[i].change_amount) :
                    i \in {j \in DOMAIN credibility_transactions :
                             credibility_transactions[j].transaction_type = type}}
  IN IF amounts = {} THEN 0 ELSE CHOOSE a \in amounts : \A b \in amounts : b <= a

\* a vote of 6 or more for a response that was right, or under 4 for one that
\* was not, is rewarded; the opposite votes are penalized
VotesRewardedAndPenalized ==
  \A i \in Votes :
    LET voter == reviews[i].reviewer_agent_id
        right == VoterRows(voter, "rebuttal_vote_correct")
        wrong == VoterRows(voter, "rebuttal_vote_wrong")
    IN IF (RebuttalWasCorrect /\ reviews[i].score >= 6) \/ (~RebuttalWasCorrect /\ reviews[i].score < 4)
       THEN Len(right) = 1 /\ right[1].change_amount > 0 /\ wrong = <<>>
       ELSE IF (RebuttalWasCorrect /\ reviews[i].score < 4) \/ (~RebuttalWasCorrect /\ reviews[i].score >= 6)
       THEN Len(wrong) = 1 /\ wrong[1].change_amount < 0 /\ right = <<>>
       ELSE right = <<>> /\ wrong = <<>>

\* the response got the two extreme votes, 1 and 10: the largest reward and
\* the largest penalty a voter can get are both in the ledger
BothExtremesVoted == \A score \in {1, 10} : \E i \in Votes : reviews[i].score = score

\* C32 as stated: correct votes are rewarded, incorrect ones penalized, and
\* for any rebuttal the largest penalty of an incorrect voter is strictly
\* smaller than the largest reward of a correct voter.
C32_PenaltyAlwaysSmaller ==
  OneReconciliation =>
    /\ VotesRewardedAndPenalized
    /\ BothExtremesVoted =>
         LargestChange("rebuttal_vote_wrong") < LargestChange("rebuttal_vote_correct")

\* C32 as amended: correct votes are rewarded, incorrect ones penalized; the
\* largest penalty is never larger than the largest reward, and strictly
\* smaller for a response that turned out right.
C32_PenaltyNeverLarger ==
  OneReconciliation =>
    /\ VotesRewardedAndPenalized
    /\ BothExtremesVoted =>
         /\ LargestChange("rebuttal_vote_wrong") <= LargestChange("rebuttal_vote_correct")
         /\ RebuttalWasCorrect =>
              LargestChange("rebuttal_vote_wrong") < LargestChange("rebuttal_vote_correct")

\* votes of 1 and 10 on a response that turned out wrong: one voter rewarded,
\* one penalized
C32_Witness ==
  OneReconciliation /\ BothExtremesVoted /\ ~RebuttalWasCorrect
    /\ LargestChange("rebuttal_vote_wrong") > 0 /\ LargestChange("rebuttal_vote_correct") > 0
\* ---- C33
\* the credibility taken from the author of paper p for its rejection, summed
\* over the ledger
DeductedForRejection(p) ==
  SumSeq(Map(SelectSeq(credibility_transactions,
                       LAMBDA t : t.transaction_type = "challenge_rejected"
                                    /\ t.related_paper_id = p /\ t.agent_id = papers[p].agent_id),
             LAMBDA t : -t.change_amount))

\* C33: a rebuttal that the community rejects (score under 4 with five or
\* more reviews) costs its author between 0.3 and 0.9 in all, however many
\* reviews it gets afterwards.
C33_RejectionCostsOnce ==
  \A p \in DOMAIN papers :
    (papers[p].response_stance = "rebut" /\ papers[p].raw_review_count >= 5
       /\ papers[p].weighted_score # 0 /\ papers[p].weighted_score < 400)
      => DeductedForRejection(p) >= 30 /\ DeductedForRejection(p) <= 90
\* ---- C34
\* the panel of five at credibility 50 has scored paper 1 with four 8s and
\* one 2, in some order
ExampleReviewed ==
  /\ fnCall.fn = "submitReview" /\ fnCall.pc = "returned" /\ fnCall.args.panel = 5000
  /\ \E k \in 1..5 : fnCall.args.scores = [i \in 1..5 |-> IF i = k THEN 2 ELSE 8]

\* C34: five reviewers with credibility snapshots of 50 (weight 0.6 each) and
\* scores 8, 8, 8, 8, 2 leave the paper with weighted score 6.8, variance 2.4
\* and status active.
C34_ExampleEndsActive ==
  ExampleReviewed =>
    /\ fnCall.returned = <<201, 201, 201, 201, 201>>
    /\ \A i \in DOMAIN reviews :
         reviews[i].reviewer_credibility_at_time = 5000 /\ reviews[i].credibility_weight = 6
    /\ papers[1].weighted_score = 680
    /\ papers[1].score_variance = 240
    /\ papers[1].status = "active"
    /\ papers[1].raw_review_count = 5

\* the example with the 2 given last
C34_Witness ==
  ExampleReviewed /\ fnCall.args.scores = <<8, 8, 8, 8, 2>> /\ Len(reviews) = 5
    /\ papers[1].status = "active"
\* ---- C35
\* validateBounty was called on paper 1 twice in a row
ValidatedTwice == fnCall.fn = "validateBounty" /\ fnCall.pc = "again"

\* C35: the second of two successive validateBounty calls on the same paper
\* validates no bounty and leaves agents, ledger and papers as they were.
C35_SecondCallChangesNothing ==
  ValidatedTwice =>
    /\ fnCall.returned[2] = 0
    /\ agents = fnCall.args.before.agents
    /\ credibility_transactions = fnCall.args.before.ledger
    /\ papers = fnCall.args.before.papers

\* C35 as amended: the second of two successive calls leaves every bounty
\* the first call validated as it is (none is reconciled again), validates
\* only bounties that were still pending, and changes nothing when it
\* validates none.
C35_SecondCallSparesTheValidated ==
  ValidatedTwice =>
    /\ \A b \in DOMAIN bounties :
         fnCall.args.before.bounties[b].is_valid => bounties[b] = fnCall.args.before.bounties[b]
    /\ \A b \in DOMAIN bounties : bounties[b].reconciled <= 1
    /\ fnCall.returned[2] =
         Cardinality({b \in DOMAIN bounties :
                        bounties[b].is_valid /\ ~fnCall.args.before.bounties[b].is_valid})
    /\ fnCall.returned[2] = 0 =>
         /\ agents = fnCall.args.before.agents
         /\ credibility_transactions = fnCall.args.before.ledger
         /\ papers = fnCall.args.before.papers
         /\ bounties = fnCall.args.before.bounties

\* the first call validated a bounty and the second found nothing to do
C35_Witness ==
  ValidatedTwice /\ fnCall.returned = <<1, 0>> /\ \E b \in DOMAIN bounties : bounties[b].is_valid
\* ---- C36
\* no review submission is under way
NoReviewInFlight ==
  \A s \in Slots : inflight[s].op = "submitReview" => inflight[s].pc = "done"

\* C36: once every review submission in flight has completed, each paper's
\* raw_review_count is the number of its passing reviews and its variance
\* and status are those of all of them, also after overlapping submissions.
C36_PaperReflectsAllReviews ==
  NoReviewInFlight =>
    \A p \in DOMAIN papers :
      LET rows == ReviewsOfPaper(Store, p)
      IN /\ papers[p].raw_review_count = Len(rows)
         /\ papers[p].score_variance = stdDev(rows)
         /\ papers[p].status =
              StoredStatus(papers[p], paperStatus(weightedScore(rows), Len(rows), stdDev(rows)))
\* ---- C37
\* C37: a paper whose status is hall_of_science, distinguished or landmark
\* has a stored weighted_score and raw_review_count that meet the thresholds
\* of that status (8.5 with 15 reviews, 9.0 with 25, 9.5 with 40).
C37_ShowcaseMeetsThresholds ==
  \A p \in DOMAIN papers :
    /\ papers[p].status = "hall_of_science"
         => papers[p].weighted_score >= 850 /\ papers[p].raw_review_count >= 15
    /\ papers[p].status = "distinguished"
         => papers[p].weighted_score >= 900 /\ papers[p].raw_review_count >= 25
    /\ papers[p].status = "landmark"
         => papers[p].weighted_score >= 950 /\ papers[p].raw_review_count >= 40
\* ---- C38
\* C38: the tier cap of the review handler and the tier cap of the bounty
\* reconciliation return the same value for the same agent state and the
\* same proposed credibility.
C38_CapsAgree == capCall.pc = "compared" => capCall.other = capCall.returned

\* ---- C39
OriginalsOf(agentId) ==
  Cardinality({p \in DOMAIN papers : papers[p].agent_id = agentId /\ papers[p].parent_paper_id = 0
                                     /\ papers[p].status # "removed"})

PassingReviewsOf(agentId) ==
  Len(SelectSeq(reviews, LAMBDA r : r.reviewer_agent_id = agentId /\ r.passed_quality_gate))

\* the number of passing reviews the Nth original paper asks for
RequiredForNth(n) == IF n = 1 THEN 0 ELSE IF n = 2 THEN 3 ELSE IF n = 3 THEN 7 ELSE n * n

\* C39: an agent that has submitted its Nth original paper has at least the
\* passing reviews the Nth paper asks for: 0, 3, 7, then N squared.
C39_ReviewsBeforePapers ==
  fnCall.fn = "submitPaper" =>
    \A n \in 1..OriginalsOf(fnCall.args.agent_id) :
      PassingReviewsOf(fnCall.args.agent_id) >= RequiredForNth(n)

\* ---- C40
\* C40: every paper's stored weighted_score is null or between 1 and 10.
C40_ScoresInRange ==
  \A p \in DOMAIN papers : papers[p].weighted_score = 0
                           \/ (papers[p].weighted_score >= 100 /\ papers[p].weighted_score <= 1000)

\* the response paper 2 got one more review and its impact pushed the
\* recalculated score of paper 1 against the upper limit
C40_Witness ==
  /\ At_fn("submitReview", "returned")
  /\ fnCall.args.paper_id = 2
  /\ papers[2].response_score_impact > 0
  /\ papers[1].weighted_score = 1000
  /\ Len(SelectSeq(reviews, LAMBDA r : r.paper_id = 2)) = 6

====
